---- MODULE Spec2Model ----
(***************************************************************************)
(* A model of the duplicate-media detection core of medman:                *)
(*   - UnionFind                      (clustering.py, class UnionFind)     *)
(*   - the parallel hashing scheduler (hashing.py, hash_*_parallel)        *)
(*   - the clustering pipeline        (cluster_images, cluster_videos)     *)
(*   - the resolution of the clusters (handle_image_cluster,               *)
(*                                     handle_video_cluster, main)         *)
(*   - the web review session         (web_app.py: review,                 *)
(*                                     handle_decision, undo_decision)     *)
(*   - the entry points               (main, start_scan, run_scan)         *)
(* Each part has its own specification (SpecUF, SpecSched, SpecCluster,    *)
(* SpecResolve, SpecReview, SpecHistory, SpecEntry); the variables of the  *)
(* other parts stay at their idle values.                                  *)
(***************************************************************************)
EXTENDS Integers, Sequences, FiniteSets, TLC

VARIABLES
    parent,         \* UnionFind.parent: dict element -> element
    links,          \* ghost: the pairs {x, y}, x # y, for which union(x, y) was called
    call            \* ghost: the last UnionFind call and, for a find, what it
                    \* returned and the parent map it was called on

VARIABLES
    kind,           \* which hash_*_parallel function runs
    inputs,         \* its argument paths (a list of distinct paths)
    outcome,        \* per path: what the transform does for it
    has_cb,         \* whether a progress callback was passed
    spc,            \* position: "call", "running", "done", "raised"
    pending,        \* futures as_completed has not yielded yet
    results,        \* the results dict, in insertion order
    i,              \* the enumerate(..., 1) counter of the loop
    arrived,        \* ghost: the futures in the order as_completed yielded them
    cb_log          \* ghost: the calls the caller's progress callback received

VARIABLES
    media,          \* "image": cluster_images runs, "video": cluster_videos
    content,        \* per input path: which bytes the file holds
    io,             \* per input path: "ok", "nofp" (unreadable), "nosha" (SHA fails)
    threshold,      \* the threshold argument, in hundredths
    cpc,            \* position in cluster_images / cluster_videos
    fingerprints,   \* dict path -> fingerprint, in completion order
    sha_results,    \* dict path -> SHA-256 digest (read by key only)
    exact_map,      \* dict key -> list of paths
    phash_results,  \* dict representative -> pHash (vhash_results for videos:
                    \* representative -> list of frame hashes), in completion order
    unions,         \* ghost: the uf.union(p1, p2) calls of the comparison loop
    ret             \* the list of clusters the function returns

\* ---- resolving the clusters: main.py's run, handle_image_cluster and
\* handle_video_cluster of main.py and of clustering.py
VARIABLES
    handlers,       \* "main": main.py's handlers, "clustering": clustering.py's
    interactive,    \* the interactive argument
    clusters,       \* the clusters of the run, image clusters first: [type, files]
    digest,         \* per file: what hash_file_sha256 returns for it, 0 for None
    loc,            \* per file: "orig" (at its path), "dup" (moved to the
                    \* duplicates area), "gone" (vanished since clustering)
    rpc,            \* "idle" between two clusters, "loop" inside a handler,
                    \* "done", "exited" (SystemExit), "raised"
    ci,             \* the index of the cluster being resolved
    best,           \* best[0], 0 outside a handler
    others,         \* the members the loop has still to visit
    asked,          \* ghost: the requests made to the decision source:
                    \* [source, left, right]
    answer,         \* ghost: what the last request returned, "none" before
    sha_read        \* ghost: the files hash_file_sha256 was called for

\* ---- the web review session: review, handle_decision and undo_decision of
\* web_app.py on the ScanState
VARIABLES
    state_clusters, \* state.clusters: [type, files]
    current_index,  \* state.current_index, counted from 0
    state_threshold,\* state.threshold, in hundredths
    history,        \* state.history: [choice, moved_path, dest_path, index, files]
    fs,             \* the paths at which a file exists
    log,            \* ghost: the recorded decisions that were not undone
    undone,         \* ghost: the entry the last request undid, NoAction otherwise
    error           \* ghost: the last request ended in an unhandled exception

\* ---- the entry points that take a threshold: main of main.py, start_scan
\* and run_scan of web_app.py, cluster_images / cluster_videos
VARIABLES
    entry,          \* "cli", "scan", "cluster_images", "cluster_videos"
    arg,            \* the threshold argument: [given, value], in hundredths
    dir_ok,         \* os.path.isdir(directory)
    epc,            \* where the entry point is
    made_dir,       \* the duplicates directory was created
    hashed,         \* files were handed to the hashing stages
    session,        \* the ScanState fields start_scan writes: [status, threshold]
    result          \* "none", "rejected", "error_page", "done"

\* ---- the access control of the web application: auth_middleware, login and
\* logout of web_app.py
VARIABLES
    session_user,   \* per client: request.session.get("user"), NoUser if absent
    app_status,     \* state.status, the part of the ScanState POST /scan writes
    response        \* ghost: the last request and its answer: [client, method,
                    \* path, username, password, status, location, handler]

\* ---- handle_decision of web_app.py, statement by statement
VARIABLES
    dpc,            \* "idle" between two requests, then "moved", "record", "advance"
    d_choice,       \* the choice of the decision that is being handled
    d_action,       \* the local variable action, NoAction for None
    d_start         \* ghost: the session and the choice the decision began with

\* ---- the three pools of cluster_images, task by task
VARIABLES
    tpc,            \* where the calling thread is: "fingerprint", "sha", "phash"
                    \* (in or before that stage's pool), "compare", "done"
    pool_open,      \* the calling thread is inside the `with ...Executor` block
    pool_inputs,    \* the paths argument of the running hash_*_parallel call
    pool_results,   \* its results dict
    yielded,        \* the futures as_completed has yielded
    task,           \* per stage and future: "queued", "running", "done"
    submitted,      \* ghost: per stage, the paths whose tasks were submitted
    writers         \* ghost: the threads that called uf.union

\* ---- a call of hash_video_frames or compare_video_hashes of hashing.py
VARIABLES
    called,             \* the function that is called, "none" when none is
    call_args,           \* its arguments
    call_out             \* [done, value, indices]: what it returned, and the local
                    \* list indices of hash_video_frames

\* ---- POST /scan and the threads of run_scan of web_app.py
VARIABLES
    state_directory,        \* state.directory, NoDir for None
    state_duplicates_dir,   \* state.duplicates_dir, NoDuplicatesDir for None
    scan_threads            \* the threads start_scan started, in the order of
                            \* the requests: [directory, threshold] are the
                            \* arguments of run_scan, pc where it is, image_paths
                            \* and all_clusters its locals, status what it wrote
                            \* to state.status at its end

\* ---- a run of decisions and the undos of them (web_app.py)
VARIABLES
    trip_pc,        \* "before" the run, "deciding", "undoing", "back" after the
                    \* last undo
    trip_start,     \* ghost: the session and the files before the first decision
                    \* of the run, and the number n of its decisions
    trip_n          \* ghost: the decisions of the run that are not undone yet

ufVars == <<parent, links, call>>
pureVars == <<called, call_args, call_out>>
scanVars == <<state_directory, state_duplicates_dir, scan_threads>>
tripVars == <<trip_pc, trip_start, trip_n>>
authVars == <<session_user, app_status, response>>
stepVars == <<dpc, d_choice, d_action, d_start>>
stageVars == <<tpc, pool_open, pool_inputs, pool_results, yielded, task, submitted,
              writers>>
extraVars == <<authVars, stepVars, stageVars, pureVars, scanVars, tripVars>>
entryVars == <<entry, arg, dir_ok, epc, made_dir, hashed, session, result>>
reviewVars == <<state_clusters, current_index, state_threshold, history, fs, log, undone, error>>
resolveVars == <<handlers, interactive, clusters, digest, loc, rpc, ci, best, others, asked,
                 answer, sha_read>>
clusterVars == <<media, content, io, threshold, cpc, fingerprints, sha_results, exact_map,
                 phash_results, unions, ret>>
schedVars == <<kind, inputs, outcome, has_cb, spc, pending, results, i, arrived, cb_log>>
vars == <<parent, links, call,
          kind, inputs, outcome, has_cb, spc, pending, results, i, arrived, cb_log,
          media, content, io, threshold, cpc, fingerprints, sha_results, exact_map,
          phash_results, unions, ret,
          handlers, interactive, clusters, digest, loc, rpc, ci, best, others, asked,
          answer, sha_read,
          state_clusters, current_index, state_threshold, history, fs, log, undone, error,
          entry, arg, dir_ok, epc, made_dir, hashed, session, result,
          session_user, app_status, response,
          dpc, d_choice, d_action, d_start,
          tpc, pool_open, pool_inputs, pool_results, yielded, task, submitted, writers,
          called, call_args, call_out,
          state_directory, state_duplicates_dir, scan_threads,
          trip_pc, trip_start, trip_n>>

\* ------------------------------------------------------------------ bounds
NumPaths == 3
NumContents == 4
NumFiles == 5
LongCluster == 12

\* ------------------------------------------------------ program constants
HashBits == 64
HistoryCap == 10

Paths == 1 .. NumPaths

\* ---------------------------------------------------------------- generic
Range(s) == {s[k] : k \in DOMAIN s}

\* the empty mapping
EmptyDict == [x \in {} |-> x]

\* ------------------------------------------------- ordered dictionaries
\* A Python dict with its insertion order: a sequence of <<key, value>> pairs
\* with distinct keys.
DictKeys(d) == [k \in DOMAIN d |-> d[k][1]]
DictValues(d) == [k \in DOMAIN d |-> d[k][2]]
DictHas(d, key) == \E k \in DOMAIN d : d[k][1] = key
DictGet(d, key) == d[CHOOSE k \in DOMAIN d : d[k][1] = key][2]
\* d[key] = v: a new key goes to the end, a known key keeps its place
DictSet(d, key, v) ==
    IF DictHas(d, key)
    THEN [k \in DOMAIN d |-> IF d[k][1] = key THEN <<key, v>> ELSE d[k]]
    ELSE Append(d, <<key, v>>)
\* a dict that is only read by key (`key in d`, `d[key]`): its mapping
AsMapping(d) == [key \in Range(DictKeys(d)) |-> DictGet(d, key)]

\* ------------------------------------------------ the parallel scheduler
Kinds == {"fingerprint", "file", "image", "video"}

\* What a task can hand back: a value, None, the empty list, or an exception
\* raised by future.result().
NoneRes == [tag |-> "none", of |-> 0]
EmptyRes == [tag |-> "empty", of |-> 0]
RaiseRes == [tag |-> "raise", of |-> 0]
ValRes(v) == [tag |-> "val", of |-> v]

\* hash_video_frames returns a list (possibly empty), the other transforms a
\* value or None
TaskOutcomes(k, p) ==
    IF k = "video" THEN {RaiseRes, EmptyRes, ValRes(<<k, p>>)}
    ELSE {RaiseRes, NoneRes, ValRes(<<k, p>>)}

\* try: res = future.result()  except Exception: res = None  ([] for video)
FutureResult(k, o) ==
    IF o.tag = "raise" THEN (IF k = "video" THEN EmptyRes ELSE NoneRes) ELSE o

\* `if res is not None` (fingerprint, file, image), `if hlist` (video)
StoredNotNone(k, res) == res.tag # "none"
Stored(k, res) ==
    IF k = "video" THEN res.tag \notin {"none", "empty"} ELSE res.tag # "none"

\* path = future_to_path[future]: the future submitted f-th is the one of
\* inputs[f], whatever its arrival position n is
ResultKeyByArrival(inp, f, n) == inp[n]
ResultKey(inp, f, n) == inp[f]

\* the stage names clustering.py passes to sub_cb
StageName(k) ==
    CASE k = "fingerprint" -> "Fingerprinting"
      [] k = "file" -> "SHA Hashing"
      [] k = "image" -> "pHash"
      [] k = "video" -> "Video pHash"

\* sub_cb(stage_name)'s cb(curr, tot): the call it makes to progress_callback
SubCb(stage, curr, tot) == <<<<stage, curr, tot>>, curr, tot>>

\* `if progress_callback: progress_callback(i, total)`: the calls made after
\* the n-th arrival
ProgressCallsOnSuccess(cb, k, n, tot, res) ==
    IF cb /\ Stored(k, res) THEN <<SubCb(StageName(k), n, tot)>> ELSE <<>>
ProgressCalls(cb, k, n, tot, res) ==
    IF cb THEN <<SubCb(StageName(k), n, tot)>> ELSE <<>>

\* One turn of the `for i, future in enumerate(as_completed(...), 1)` loop
\* on the results dict
LoopBody(k, inp, res_dict, f, n, o) ==
    LET res == FutureResult(k, o)
    IN  IF Stored(k, res) THEN DictSet(res_dict, ResultKey(inp, f, n), res)
        ELSE res_dict

\* The dict a whole hash_*_parallel call returns when the futures complete in
\* the order `order` (future numbers) and out[p] is what p's transform does.
RECURSIVE LoopFrom(_, _, _, _, _, _)
LoopFrom(k, inp, order, out, n, res_dict) ==
    IF n > Len(order) THEN res_dict
    ELSE LoopFrom(k, inp, order, out, n + 1,
                  LoopBody(k, inp, res_dict, order[n], n, out[inp[order[n]]]))
ParallelMap(k, inp, order, out) == LoopFrom(k, inp, order, out, 1, <<>>)

SchedIdle ==
    /\ kind = "fingerprint"
    /\ inputs = <<>>
    /\ outcome = EmptyDict
    /\ has_cb = FALSE
    /\ spc = "idle"
    /\ pending = {}
    /\ results = <<>>
    /\ i = 0
    /\ arrived = <<>>
    /\ cb_log = <<>>

SchedInit ==
    /\ kind \in Kinds
    /\ \E n \in 0 .. NumPaths : inputs = [k \in 1 .. n |-> k]
    /\ outcome \in [Range(inputs) -> UNION {TaskOutcomes(kind, p) : p \in Paths}]
    /\ \A p \in Range(inputs) : outcome[p] \in TaskOutcomes(kind, p)
    /\ has_cb \in BOOLEAN
    /\ spc = "call"
    /\ pending = {}
    /\ results = <<>>
    /\ i = 0
    /\ arrived = <<>>
    /\ cb_log = <<>>

\* results = {}; total = len(paths); `if total == 0: return {}` (not in
\* hash_fingerprint_parallel); executor.submit for every path
SchedSubmit ==
    /\ spc = "call"
    /\ IF Len(inputs) = 0 /\ kind # "fingerprint"
       THEN spc' = "done" /\ pending' = {}
       ELSE spc' = "running" /\ pending' = DOMAIN inputs
    /\ UNCHANGED <<kind, inputs, outcome, has_cb, results, i, arrived, cb_log>>

\* as_completed yields future f; the loop body runs for it
SchedComplete(f) ==
    /\ spc = "running"
    /\ f \in pending
    /\ LET n == i + 1
           o == outcome[inputs[f]]
           res == FutureResult(kind, o)
       IN  IF res.tag = "raise"
           THEN /\ spc' = "raised"
                /\ UNCHANGED <<results, cb_log>>
           ELSE /\ results' = LoopBody(kind, inputs, results, f, n, o)
                /\ cb_log' = cb_log \o ProgressCalls(has_cb, kind, n, Len(inputs), res)
                /\ UNCHANGED spc
    /\ i' = i + 1
    /\ pending' = pending \ {f}
    /\ arrived' = Append(arrived, f)
    /\ UNCHANGED <<kind, inputs, outcome, has_cb>>

\* the executor's with-block ends; return results
SchedReturn ==
    /\ spc = "running"
    /\ pending = {}
    /\ spc' = "done"
    /\ UNCHANGED <<kind, inputs, outcome, has_cb, pending, results, i, arrived, cb_log>>

\* ------------------------------------------------------------- UnionFind
\* dict.setdefault(x, x) on the parent map
SetDefault(p, x) == IF x \in DOMAIN p THEN p ELSE p @@ (x :> x)

\* The parent map after find(x): the node is created on first sight and every
\* node on the path from x to its root is re-pointed at the root.
RECURSIVE FindParent(_, _)
FindParent(p, x) ==
    LET p1 == SetDefault(p, x)
    IN  IF p1[x] # x
        THEN LET p2 == FindParent(p1, p1[x])
             IN  [p2 EXCEPT ![x] = p2[p1[x]]]
        ELSE p1

\* The value find(x) returns: parent[x] as it is after the compression
FindStale(p, x) == SetDefault(p, x)[x]
Find(p, x) == FindParent(p, x)[x]

\* The parent map after union(x, y)
UnionParentRepointY(p, x, y) ==
    LET p1 == FindParent(p, x)
        rx == p1[x]
        p2 == FindParent(p1, y)
        ry == p2[y]
    IN  IF rx # ry THEN [p2 EXCEPT ![y] = rx] ELSE p2
UnionParentRepointX(p, x, y) ==
    LET p1 == FindParent(p, x)
        rx == p1[x]
        p2 == FindParent(p1, y)
        ry == p2[y]
    IN  IF rx # ry THEN [p2 EXCEPT ![x] = ry] ELSE p2
UnionParent(p, x, y) ==
    LET p1 == FindParent(p, x)
        rx == p1[x]
        p2 == FindParent(p1, y)
        ry == p2[y]
    IN  IF rx # ry THEN [p2 EXCEPT ![ry] = rx] ELSE p2

\* ---- reading a parent map without changing it (used by the properties)
RECURSIVE RootOf(_, _)
RootOf(p, x) == IF p[x] = x THEN x ELSE RootOf(p, p[x])

ClassesOf(p) == {{y \in DOMAIN p : RootOf(p, y) = RootOf(p, x)} : x \in DOMAIN p}

\* a and b are joined by a chain of the pairs in ls
RECURSIVE Reach(_, _)
Reach(S, ls) ==
    LET T == S \cup {y \in UNION ls : \E l \in ls : y \in l /\ l \cap S # {}}
    IN  IF T = S THEN S ELSE Reach(T, ls)
Connected(ls, a, b) == b \in Reach({a}, ls)

\* ---- UnionFind operations
UFIdle ==
    /\ parent = EmptyDict
    /\ links = {}
    /\ call = [op |-> "init", x |-> 0, y |-> 0, ret |-> 0, old |-> EmptyDict]


UFFind(x) ==
    /\ parent' = FindParent(parent, x)
    /\ call' = [op |-> "find", x |-> x, y |-> 0, ret |-> Find(parent, x),
                old |-> parent]
    /\ UNCHANGED links

UFUnion(x, y) ==
    /\ parent' = UnionParent(parent, x, y)
    /\ links' = IF x = y THEN links ELSE links \cup {{x, y}}
    /\ call' = [op |-> "union", x |-> x, y |-> y, ret |-> 0, old |-> EmptyDict]

\* ------------------------------------------------- the clustering pipeline
Contents == 1 .. NumContents

\* threshold values, in hundredths: 0, LOW_THRESHOLD and 1
Thresholds == {0, 89, 100}

\* get_file_fingerprint of a file's bytes: (size, md5 of the first 64 KiB, md5
\* of the last 64 KiB). Different bytes can share it: contents 1 and 2 do, 3
\* and 4 do, ...
FpOf(c) == (c + 1) \div 2

\* Every fourth content cannot be decoded: hash_image_phash returns None,
\* hash_video_frames returns [].
Decodable(c) == c % 4 # 0

\* imagehash.phash of a file's bytes: a 64-bit hash, here the hashes whose
\* first 4c bits are set, so that contents c and c' are 4|c - c'| bits apart
PhashOf(c) == 4 * c

\* hash_video_frames of a file's bytes: the hashes of the sampled frames that
\* could be read, two frames for odd contents and one for even ones
VideoHashOf(c) == IF c % 2 = 1 THEN <<PhashOf(c), PhashOf(c)>> ELSE <<PhashOf(c)>>

\* h1 - h2 on imagehash.ImageHash: the Hamming distance
Hamming(h1, h2) == IF h1 >= h2 THEN h1 - h2 ELSE h2 - h1

\* sim = 1 - (h1 - h2) / 64.0, as the fraction num / den
ImageSim(h1, h2) == [num |-> HashBits - Hamming(h1, h2), den |-> HashBits]

\* compare_video_hashes(hashes1, hashes2), as the fraction num / den
RECURSIVE SumDiffs(_, _, _)
SumDiffs(h1, h2, n) ==
    IF n = 0 THEN 0 ELSE Hamming(h1[n], h2[n]) + SumDiffs(h1, h2, n - 1)
compare_video_hashes_over_first(h1, h2) ==
    IF h1 = <<>> \/ h2 = <<>> THEN [num |-> 0, den |-> 1]
    ELSE LET total == IF Len(h1) <= Len(h2) THEN Len(h1) ELSE Len(h2)
             diffs == SumDiffs(h1, h2, total)
         IN  [num |-> IF HashBits * Len(h1) - diffs > 0
                      THEN HashBits * Len(h1) - diffs ELSE 0,
              den |-> HashBits * Len(h1)]
compare_video_hashes(h1, h2) ==
    IF h1 = <<>> \/ h2 = <<>> THEN [num |-> 0, den |-> 1]
    ELSE LET total == IF Len(h1) <= Len(h2) THEN Len(h1) ELSE Len(h2)
             diffs == SumDiffs(h1, h2, total)
         IN  [num |-> IF HashBits * total - diffs > 0
                      THEN HashBits * total - diffs ELSE 0,
              den |-> HashBits * total]

\* the similarity the comparison loop computes
Sim(m, h1, h2) == IF m = "video" THEN compare_video_hashes(h1, h2) ELSE ImageSim(h1, h2)

\* sim >= threshold, the threshold in hundredths
MeetsThresholdFlipped(sim, t) == sim.num * 100 <= t * sim.den
MeetsThreshold(sim, t) == sim.num * 100 >= t * sim.den

\* what the transforms do for path p
FingerprintOutcome(p) ==
    IF io[p] = "nofp" THEN NoneRes ELSE ValRes(FpOf(content[p]))
ShaOutcome(p) ==
    IF io[p] = "nosha" THEN NoneRes ELSE ValRes(content[p])
PhashOutcomeZeroHash(m, p) ==
    IF m = "video"
    THEN ValRes(IF Decodable(content[p]) THEN VideoHashOf(content[p]) ELSE <<0>>)
    ELSE ValRes(IF Decodable(content[p]) THEN PhashOf(content[p]) ELSE 0)
PhashOutcome(m, p) ==
    IF m = "video"
    THEN (IF Decodable(content[p]) THEN ValRes(VideoHashOf(content[p])) ELSE EmptyRes)
    ELSE (IF Decodable(content[p]) THEN ValRes(PhashOf(content[p])) ELSE NoneRes)

\* the completion orders of n futures
Perms(n) == {o \in [1 .. n -> 1 .. n] : \A a, b \in 1 .. n : a # b => o[a] # o[b]}
Identity(n) == [k \in 1 .. n |-> k]

\* for path, key in items: m.setdefault(key, []).append(path)
RECURSIVE GroupFrom(_, _, _)
GroupFrom(items, n, m) ==
    IF n > Len(items) THEN m
    ELSE LET path == items[n][1]
             key == items[n][2]
             old == IF DictHas(m, key) THEN DictGet(m, key) ELSE <<>>
         IN  GroupFrom(items, n + 1, DictSet(m, key, Append(old, path)))

\* fp_map: fingerprint -> paths
FpMap(fps) == GroupFrom([k \in DOMAIN fps |-> <<fps[k][1], fps[k][2].of>>], 1, <<>>)

\* `if len(paths) > 1`: the fingerprint group goes to the SHA stage
NeedsShaOffByOne(paths) == Len(paths) > 2
NeedsSha(paths) == Len(paths) > 1

\* to_sha: the members of the fingerprint groups with more than one member
RECURSIVE ToShaFrom(_, _)
ToShaFrom(groups, n) ==
    IF n > Len(groups) THEN <<>>
    ELSE (IF NeedsSha(groups[n]) THEN groups[n] ELSE <<>>) \o ToShaFrom(groups, n + 1)
ToSha(fps) == ToShaFrom(DictValues(FpMap(fps)), 1)

\* the exact-group key of a path: its digest when it has one, else a key of
\* its own
ExactKeyFingerprint(path, fp, sha) == <<"fp", fp>>
ExactKey(path, fp, sha) ==
    IF path \in DOMAIN sha THEN <<"sha", sha[path].of>>
    ELSE <<"unique", path>>

ExactMap(fps, sha) ==
    GroupFrom([k \in DOMAIN fps |->
                  <<fps[k][1], ExactKey(fps[k][1], fps[k][2].of, sha)>>], 1, <<>>)

\* reps = [paths[0] for paths in exact_map.values()]
Reps(em) == [k \in DOMAIN em |-> em[k][2][1]]

\* The comparison loop over reps_valid = list(phash_results.keys()): the
\* parent map and the union calls after the pairs (a, b), a < b, from (i0, j0)
RECURSIVE CompareFrom(_, _, _, _, _, _)
CompareFrom(m, phr, t, a, b, st) ==
    IF a > Len(phr) THEN st
    ELSE IF b > Len(phr) THEN CompareFrom(m, phr, t, a + 1, a + 2, st)
    ELSE LET p1 == phr[a][1]
             p2 == phr[b][1]
             sim == Sim(m, phr[a][2].of, phr[b][2].of)
         IN  CompareFrom(m, phr, t, a, b + 1,
                 IF MeetsThreshold(sim, t)
                 THEN [parent |-> UnionParent(st.parent, p1, p2),
                       unions |-> Append(st.unions, <<p1, p2>>)]
                 ELSE st)
CompareLoop(m, phr, t) ==
    CompareFrom(m, phr, t, 1, 2, [parent |-> EmptyDict, unions |-> <<>>])

\* for paths in exact_map.values(): rep = paths[0]; root = uf.find(rep);
\* clusters.setdefault(root, []).extend(paths)
RECURSIVE BuildFrom(_, _, _, _)
BuildFrom(em, n, p, cl) ==
    IF n > Len(em) THEN [parent |-> p, clusters |-> cl]
    ELSE LET paths == em[n][2]
             rep == paths[1]
             p1 == FindParent(p, rep)
             root == p1[rep]
             old == IF DictHas(cl, root) THEN DictGet(cl, root) ELSE <<>>
         IN  BuildFrom(em, n + 1, p1, DictSet(cl, root, old \o paths))
BuildClusters(em, p) == BuildFrom(em, 1, p, <<>>)

\* [group for group in clusters.values() if len(group) > 1]
ReturnedAll(cl) == DictValues(cl)
Returned(cl) == SelectSeq(DictValues(cl), LAMBDA g : Len(g) > 1)

\* What cluster_images (m = "image") and cluster_videos (m = "video") return
\* when the futures of each of the three pools complete in submission order
ClusterInOrder(m, paths, t) ==
    LET fps == ParallelMap("fingerprint", paths, Identity(Len(paths)),
                           [p \in Range(paths) |-> FingerprintOutcome(p)])
        tosha == ToSha(fps)
        sha == AsMapping(ParallelMap("file", tosha, Identity(Len(tosha)),
                                     [p \in Range(tosha) |-> ShaOutcome(p)]))
        em == ExactMap(fps, sha)
        reps == Reps(em)
        phr == ParallelMap(m, reps, Identity(Len(reps)),
                           [p \in Range(reps) |-> PhashOutcome(m, p)])
        uf == CompareLoop(m, phr, t)
    IN  Returned(BuildClusters(em, uf.parent).clusters)

\* the union calls of that run, in the order they are made
UnionsInOrder(m, paths, t) ==
    LET fps == ParallelMap("fingerprint", paths, Identity(Len(paths)),
                           [p \in Range(paths) |-> FingerprintOutcome(p)])
        tosha == ToSha(fps)
        sha == AsMapping(ParallelMap("file", tosha, Identity(Len(tosha)),
                                     [p \in Range(tosha) |-> ShaOutcome(p)]))
        reps == Reps(ExactMap(fps, sha))
        phr == ParallelMap(m, reps, Identity(Len(reps)),
                           [p \in Range(reps) |-> PhashOutcome(m, p)])
    IN  CompareLoop(m, phr, t).unions

\* the image_paths argument
image_paths == Identity(NumPaths)

\* ---- whole calls on a longer list of paths
NumInputs == 5
Inputs == 1 .. NumInputs
input_paths == Identity(NumInputs)

\* as_completed yielding the futures of a pool in submission order or in the
\* opposite order
Reversed(n) == [k \in 1 .. n |-> n + 1 - k]
Completion(n, rev) == IF rev THEN Reversed(n) ELSE Identity(n)

\* What cluster_images / cluster_videos return when the three pools complete
\* in the orders r1, r2, r3
ClusterWith(m, paths, t, r1, r2, r3) ==
    LET fps == ParallelMap("fingerprint", paths, Completion(Len(paths), r1),
                           [p \in Range(paths) |-> FingerprintOutcome(p)])
        tosha == ToSha(fps)
        sha == AsMapping(ParallelMap("file", tosha, Completion(Len(tosha), r2),
                                     [p \in Range(tosha) |-> ShaOutcome(p)]))
        em == ExactMap(fps, sha)
        reps == Reps(em)
        phr == ParallelMap(m, reps, Completion(Len(reps), r3),
                           [p \in Range(reps) |-> PhashOutcome(m, p)])
        uf == CompareLoop(m, phr, t)
    IN  Returned(BuildClusters(em, uf.parent).clusters)

\* ---- cluster_images of main.py, which hashes every file
\* sha_map: digest -> paths, without the files hash_file_sha256 returns None for
RefShaMap(paths) ==
    LET with_sha == SelectSeq(paths, LAMBDA p : ShaOutcome(p).tag = "val")
    IN  GroupFrom([k \in DOMAIN with_sha |-> <<with_sha[k], ShaOutcome(with_sha[k]).of>>],
                  1, <<>>)

\* for other in paths[1:]: uf.union(first, other)
RECURSIVE RefUnionGroup(_, _, _)
RefUnionGroup(p, paths, n) ==
    IF n > Len(paths) THEN p
    ELSE RefUnionGroup(UnionParent(p, paths[1], paths[n]), paths, n + 1)

\* for paths in sha_map.values(): if len(paths) > 1: ...
RECURSIVE RefUnionExact(_, _, _)
RefUnionExact(sm, n, p) ==
    IF n > Len(sm) THEN p
    ELSE RefUnionExact(sm, n + 1,
                       IF Len(sm[n][2]) > 1 THEN RefUnionGroup(p, sm[n][2], 2) ELSE p)

\* reps and phashes: the first path of every digest whose hash_image_phash is
\* not None, with its hash
RefPhashes(sm) ==
    LET valid == SelectSeq(Reps(sm), LAMBDA r : PhashOutcome("image", r).tag = "val")
    IN  [k \in DOMAIN valid |-> <<valid[k], PhashOutcome("image", valid[k])>>]

\* for sha, paths in sha_map.items(): rep = paths[0]; if rep in uf.parent:
\* root = uf.find(rep); clusters.setdefault(root, []).extend(paths)
RECURSIVE RefBuildFrom(_, _, _, _)
RefBuildFrom(sm, n, p, cl) ==
    IF n > Len(sm) THEN cl
    ELSE LET paths == sm[n][2]
             rep == paths[1]
             p1 == FindParent(p, rep)
             root == p1[rep]
             old == IF DictHas(cl, root) THEN DictGet(cl, root) ELSE <<>>
         IN  IF rep \in DOMAIN p
             THEN RefBuildFrom(sm, n + 1, p1, DictSet(cl, root, old \o paths))
             ELSE RefBuildFrom(sm, n + 1, p, cl)

main_cluster_images(paths, t) ==
    LET sm == RefShaMap(paths)
        uf == CompareFrom("image", RefPhashes(sm), t, 1, 2,
                          [parent |-> RefUnionExact(sm, 1, EmptyDict), unions |-> <<>>])
    IN  Returned(RefBuildFrom(sm, 1, uf.parent, <<>>))

\* A call with NumInputs paths: the bytes of the files, and the file, if any,
\* that get_file_fingerprint or hash_file_sha256 fails on
InputContents ==
    {c \in [Inputs -> Contents] : \A p \in Inputs, q \in Inputs : p < q => c[p] <= c[q]}
InputFailures ==
    {[p \in Inputs |-> IF p = f THEN how ELSE "ok"] :
        f \in Inputs, how \in {"ok", "nofp", "nosha"}}

OutputInit ==
    /\ media \in {"image", "video"}
    /\ content \in InputContents
    /\ io \in InputFailures
    /\ threshold \in Thresholds
    /\ cpc = "start"
    /\ fingerprints = <<>>
    /\ sha_results = EmptyDict
    /\ exact_map = <<>>
    /\ phash_results = <<>>
    /\ unions = <<>>
    /\ ret = <<>>

\* cluster_images(image_paths, threshold) / cluster_videos(video_paths,
\* threshold) from the call to the return
WholeCall(r1, r2, r3) ==
    /\ cpc = "start"
    /\ cpc' = "done"
    /\ ret' = ClusterWith(media, input_paths, threshold, r1, r2, r3)
    /\ UNCHANGED <<media, content, io, threshold, fingerprints, sha_results, exact_map,
                   phash_results, unions>>

ClusterIdle ==
    /\ media = "image"
    /\ content = EmptyDict
    /\ io = EmptyDict
    /\ threshold = 0
    /\ cpc = "idle"
    /\ fingerprints = <<>>
    /\ sha_results = EmptyDict
    /\ exact_map = <<>>
    /\ phash_results = <<>>
    /\ unions = <<>>
    /\ ret = <<>>

\* The inputs of a run. Path names carry no meaning and every completion order
\* is explored, so the paths are numbered in the order of their contents. At
\* most one file of a run is unreadable or fails while it is SHA-hashed.
ClusterInit ==
    /\ media \in {"image", "video"}
    /\ content \in [Paths -> Contents]
    /\ \A p \in Paths, q \in Paths : p < q => content[p] <= content[q]
    /\ io \in [Paths -> {"ok", "nofp", "nosha"}]
    /\ \A p \in Paths, q \in Paths : p # q => io[p] = "ok" \/ io[q] = "ok"
    /\ threshold \in Thresholds
    /\ cpc = "start"
    /\ fingerprints = <<>>
    /\ sha_results = EmptyDict
    /\ exact_map = <<>>
    /\ phash_results = <<>>
    /\ unions = <<>>
    /\ ret = <<>>

\* 1) fingerprints = hash_fingerprint_parallel(image_paths, ...), the
\* fingerprint futures completing in any order
FingerprintStage ==
    /\ cpc = "start"
    /\ \E order \in Perms(Len(image_paths)) :
           fingerprints' = ParallelMap("fingerprint", image_paths, order,
                                       [p \in Paths |-> FingerprintOutcome(p)])
    /\ cpc' = "fingerprinted"
    /\ UNCHANGED <<media, content, io, threshold, sha_results, exact_map, phash_results,
                   unions, ret, parent>>

\* 2) to_sha; sha_results = hash_file_parallel(to_sha, ...), the SHA futures
\* completing in any order; exact_map
ShaStage ==
    /\ cpc = "fingerprinted"
    /\ LET tosha == ToSha(fingerprints)
       IN  \E order \in Perms(Len(tosha)) :
               sha_results' = AsMapping(ParallelMap("file", tosha, order,
                                          [p \in Range(tosha) |-> ShaOutcome(p)]))
    /\ exact_map' = ExactMap(fingerprints, sha_results')
    /\ cpc' = "exact"
    /\ UNCHANGED <<media, content, io, threshold, fingerprints, phash_results, unions, ret,
                   parent>>

\* 3) uf = UnionFind(); reps; phash_results = hash_image_parallel(reps, ...)
\* (hash_video_parallel for videos), the futures completing in any order; 4) the pairwise comparison of
\* the valid representatives; 5) the clusters are built and the groups with
\* more than one member returned
PerceptualStage ==
    /\ cpc = "exact"
    /\ LET reps == Reps(exact_map)
       IN  \E order \in Perms(Len(reps)) :
               phash_results' = ParallelMap(media, reps, order,
                                            [p \in Range(reps) |-> PhashOutcome(media, p)])
    /\ LET st == CompareLoop(media, phash_results', threshold)
           b == BuildClusters(exact_map, st.parent)
       IN  /\ unions' = st.unions
           /\ parent' = b.parent
           /\ ret' = Returned(b.clusters)
    /\ cpc' = "done"
    /\ UNCHANGED <<media, content, io, threshold, fingerprints, sha_results, exact_map>>

\* ------------------------------------------- the pools, task by task
\* cluster_images with the tasks of the three pools as steps of their own: the calling thread submits, workers start and end the tasks,
\* as_completed yields the ended ones, the `with` block is left, the calling
\* thread compares and builds the clusters
Stages == <<"fingerprint", "sha", "phash">>

\* which hash_*_parallel function a stage calls
StageKind(s, m) ==
    CASE s = "fingerprint" -> "fingerprint"
      [] s = "sha" -> "file"
      [] s = "phash" -> m

\* what the stage's transform does for path p
StageOutcome(s, m, p) ==
    CASE s = "fingerprint" -> FingerprintOutcome(p)
      [] s = "sha" -> ShaOutcome(p)
      [] s = "phash" -> PhashOutcome(m, p)

\* the paths a stage hands to its pool
StageInputs(s) ==
    CASE s = "fingerprint" -> image_paths
      [] s = "sha" -> ToSha(fingerprints)
      [] s = "phash" -> Reps(exact_map)

\* where the calling thread goes when the stage's function has returned
AfterStage(s) ==
    CASE s = "fingerprint" -> "sha"
      [] s = "sha" -> "phash"
      [] s = "phash" -> "compare"

NoTasks == [s \in Range(Stages) |-> EmptyDict]

StageIdle ==
    /\ tpc = "off"
    /\ pool_open = FALSE
    /\ pool_inputs = <<>>
    /\ pool_results = <<>>
    /\ yielded = {}
    /\ task = NoTasks
    /\ submitted = NoTasks
    /\ writers = {}

\* One run of cluster_images on NumPaths files, with the threshold
\* LOW_THRESHOLD
StageInit ==
    /\ media = "image"
    /\ content \in [Paths -> Contents]
    /\ \A p \in Paths, q \in Paths : p < q => content[p] <= content[q]
    /\ io \in [Paths -> {"ok", "nofp", "nosha"}]
    /\ \A p \in Paths, q \in Paths : p # q => io[p] = "ok" \/ io[q] = "ok"
    /\ threshold = 89
    /\ cpc = "idle"
    /\ fingerprints = <<>>
    /\ sha_results = EmptyDict
    /\ exact_map = <<>>
    /\ phash_results = <<>>
    /\ unions = <<>>
    /\ ret = <<>>
    /\ tpc = "fingerprint"
    /\ pool_open = FALSE
    /\ pool_inputs = <<>>
    /\ pool_results = <<>>
    /\ yielded = {}
    /\ task = NoTasks
    /\ submitted = NoTasks
    /\ writers = {}

\* what the calling thread does with the dict a hash_*_parallel call returned
StageReturned(s, res_dict) ==
    /\ fingerprints' = IF s = "fingerprint" THEN res_dict ELSE fingerprints
    /\ sha_results' = IF s = "sha" THEN AsMapping(res_dict) ELSE sha_results
    /\ exact_map' = IF s = "sha" THEN ExactMap(fingerprints, AsMapping(res_dict))
                    ELSE exact_map
    /\ phash_results' = IF s = "phash" THEN res_dict ELSE phash_results
    /\ tpc' = AfterStage(s)

\* the call of hash_*_parallel up to the dict comprehension of
\* executor.submit: `if total == 0: return {}`, else every path is submitted
PoolSubmit ==
    /\ tpc \in Range(Stages)
    /\ ~pool_open
    /\ LET inp == StageInputs(tpc)
       IN  IF inp = <<>>
           THEN /\ StageReturned(tpc, <<>>)
                /\ UNCHANGED <<pool_open, pool_inputs, pool_results, yielded, task,
                               submitted>>
           ELSE /\ pool_open' = TRUE
                /\ pool_inputs' = inp
                /\ pool_results' = <<>>
                /\ yielded' = {}
                /\ task' = [task EXCEPT ![tpc] = [f \in DOMAIN inp |-> "queued"]]
                /\ submitted' = [submitted EXCEPT ![tpc] = inp]
                /\ UNCHANGED <<fingerprints, sha_results, exact_map, phash_results, tpc>>
    /\ UNCHANGED <<media, content, io, threshold, cpc, unions, ret, parent, writers>>

\* a worker of the pool takes a submitted task
TaskStart(s, f) ==
    /\ f \in DOMAIN task[s]
    /\ task[s][f] = "queued"
    /\ task' = [task EXCEPT ![s][f] = "running"]
    /\ UNCHANGED <<media, content, io, threshold, cpc, fingerprints, sha_results,
                   exact_map, phash_results, unions, ret, parent,
                   tpc, pool_open, pool_inputs, pool_results, yielded, submitted,
                   writers>>

\* the task returns or raises: its future is done
TaskEnd(s, f) ==
    /\ f \in DOMAIN task[s]
    /\ task[s][f] = "running"
    /\ task' = [task EXCEPT ![s][f] = "done"]
    /\ UNCHANGED <<media, content, io, threshold, cpc, fingerprints, sha_results,
                   exact_map, phash_results, unions, ret, parent,
                   tpc, pool_open, pool_inputs, pool_results, yielded, submitted,
                   writers>>

\* one turn of the loop over as_completed(future_to_path): a done future is
\* yielded and its result goes into the results dict
PoolYield(f) ==
    /\ pool_open
    /\ f \in DOMAIN task[tpc]
    /\ task[tpc][f] = "done"
    /\ f \notin yielded
    /\ yielded' = yielded \cup {f}
    /\ pool_results' = LoopBody(StageKind(tpc, media), pool_inputs, pool_results, f,
                                Cardinality(yielded) + 1,
                                StageOutcome(tpc, media, pool_inputs[f]))
    /\ UNCHANGED <<media, content, io, threshold, cpc, fingerprints, sha_results,
                   exact_map, phash_results, unions, ret, parent,
                   tpc, pool_open, pool_inputs, task, submitted, writers>>

\* the loop over as_completed ends when every future was yielded; leaving the
\* `with` block is executor.shutdown(wait=True)
PoolLeftAtOnce(s) == TRUE
PoolDrained(s) ==
    /\ yielded = DOMAIN task[s]
    /\ \A f \in DOMAIN task[s] : task[s][f] = "done"

\* return results
PoolReturn ==
    /\ pool_open
    /\ PoolDrained(tpc)
    /\ StageReturned(tpc, pool_results)
    /\ pool_open' = FALSE
    /\ pool_inputs' = <<>>
    /\ pool_results' = <<>>
    /\ yielded' = {}
    /\ UNCHANGED <<media, content, io, threshold, cpc, unions, ret, parent, task,
                   submitted, writers>>

\* 4) the comparison loop with its uf.union calls and 5) the clusters, both
\* run by the thread that called cluster_images
CompareAndBuild ==
    /\ tpc = "compare"
    /\ LET st == CompareLoop(media, phash_results, threshold)
           b == BuildClusters(exact_map, st.parent)
       IN  /\ unions' = st.unions
           /\ parent' = b.parent
           /\ ret' = Returned(b.clusters)
           /\ writers' = IF st.unions # <<>> THEN writers \cup {"caller"} ELSE writers
    /\ tpc' = "done"
    /\ UNCHANGED <<media, content, io, threshold, cpc, fingerprints, sha_results,
                   exact_map, phash_results,
                   pool_open, pool_inputs, pool_results, yielded, task, submitted>>

\* ------------------------------------------------ resolving the clusters
Files == 1 .. NumFiles

\* score_image / score_video of a file: resolution plus size (plus EXIF bonus,
\* plus duration); files 1, 2, 3, 4, ... score 1, 2, 0, 1, ...
Score(f) == f % 3

\* (score, path) tuples compared as Python compares them
ScoredBefore(f, g) == Score(f) > Score(g) \/ (Score(f) = Score(g) /\ f > g)

\* sorted([(score(p), p) for p in cluster], reverse=True), the paths of it
RECURSIVE ScoredAscending(_)
ScoredAscending(S) ==
    IF S = {} THEN <<>>
    ELSE LET f == CHOOSE f \in S : \A g \in S \ {f} : ScoredBefore(g, f)
         IN  <<f>> \o ScoredAscending(S \ {f})
RECURSIVE Scored(_)
Scored(S) ==
    IF S = {} THEN <<>>
    ELSE LET f == CHOOSE f \in S : \A g \in S \ {f} : ScoredBefore(f, g)
         IN  <<f>> \o Scored(S \ {f})

\* os.path.exists(path)
ExistsUnlessMoved(lc, f) == lc[f] # "dup"
Exists(lc, f) == lc[f] = "orig"

\* move_to_duplicates(path, duplicates_dir)
move_to_duplicates(lc, f) == [lc EXCEPT ![f] = "dup"]

\* sha_best is not None and sha_best == sha_other
IsExactDuplicate(sha_best, sha_other) == sha_best # 0 /\ sha_best = sha_other

\* the threshold main() uses when --threshold is not given: LOW_THRESHOLD in
\* interactive mode, HIGH_THRESHOLD in automatic mode, in hundredths
ActiveThreshold(inter) == IF inter THEN 89 ELSE 95

\* the perceptual hash of a file in a cluster: neighbouring files are 2 bits
\* apart
FilePhash(type, f) == IF type = "video" THEN <<2 * f, 2 * f>> ELSE 2 * f

\* sim of the pair as the interactive branch computes it for existing files
PairSim(type, b, o) == Sim(type, FilePhash(type, b), FilePhash(type, o))

\* the five decisions
Decisions == {"left", "right", "both", "skip", "quit"}

\* What a call of review_image_pair / review_video_pair does: the reviewer
\* decides, closes the window without deciding, or the call fails
GuiOutcomes == Decisions \cup {"closed", "ImportError", "RuntimeError", "TclError"}

\* what the user types at the text prompt
PromptAnswers == {"a", "d", "w", "s", "q", "x"}

\* decision_map.get(choice, 'skip')
DecisionMap(choice) ==
    CASE choice = "a" -> "left"
      [] choice = "d" -> "right"
      [] choice = "w" -> "both"
      [] choice = "s" -> "skip"
      [] choice = "q" -> "quit"
      [] OTHER -> "skip"

\* handler(decision) of make_handler(best, other): the files' places, best[0]
\* and whether exit() was called
HandlerRightKeepsBest(b, o, lc, decision) ==
    CASE decision = "left" -> [loc |-> move_to_duplicates(lc, o), best |-> b, pc |-> "loop"]
      [] decision = "right" -> [loc |-> move_to_duplicates(lc, b), best |-> b, pc |-> "loop"]
      [] decision = "quit" -> [loc |-> lc, best |-> b, pc |-> "exited"]
      [] OTHER -> [loc |-> lc, best |-> b, pc |-> "loop"]
HandlerQuitSkips(b, o, lc, decision) ==
    CASE decision = "left" -> [loc |-> move_to_duplicates(lc, o), best |-> b, pc |-> "loop"]
      [] decision = "right" -> [loc |-> move_to_duplicates(lc, b), best |-> o, pc |-> "loop"]
      [] OTHER -> [loc |-> lc, best |-> b, pc |-> "loop"]
Handler(b, o, lc, decision) ==
    CASE decision = "left" -> [loc |-> move_to_duplicates(lc, o), best |-> b, pc |-> "loop"]
      [] decision = "right" -> [loc |-> move_to_duplicates(lc, b), best |-> o, pc |-> "loop"]
      [] decision = "quit" -> [loc |-> lc, best |-> b, pc |-> "exited"]
      [] OTHER -> [loc |-> lc, best |-> b, pc |-> "loop"]

\* `if sim < threshold` in the handlers of clustering.py: threshold is not a
\* parameter, a local or a global of the module, the lookup raises NameError.
\* The handlers of main.py have no such test.
ThresholdLookup(mod) == IF mod = "clustering" THEN "NameError" ELSE "none"

\* The interactive branch of main.py's handlers: review_*_pair(best[0], other,
\* ..., handler); an exception of the call leaves the handler
ReviewMain(b, o, lc, gui) ==
    LET req == [asked |-> <<[source |-> "gui", left |-> b, right |-> o]>>, answer |-> gui]
    IN  IF gui \in Decisions THEN Handler(b, o, lc, gui) @@ req
        ELSE IF gui = "closed" THEN [loc |-> lc, best |-> b, pc |-> "loop"] @@ req
        ELSE [loc |-> lc, best |-> b, pc |-> "raised"] @@ req

\* The interactive branch of clustering.py's handlers after the threshold
\* test: try: review_*_pair(...)  except (ImportError, RuntimeError): the text
\* prompt  except Exception: the pair is skipped
ReviewClustering(b, o, lc, gui, choice) ==
    LET req == <<[source |-> "gui", left |-> b, right |-> o]>>
        prompt == <<[source |-> "prompt", left |-> b, right |-> o]>>
    IN  IF gui \in Decisions THEN Handler(b, o, lc, gui) @@ [asked |-> req, answer |-> gui]
        ELSE IF gui \in {"ImportError", "RuntimeError"}
        THEN Handler(b, o, lc, DecisionMap(choice))
                 @@ [asked |-> req \o prompt, answer |-> DecisionMap(choice)]
        ELSE [loc |-> lc, best |-> b, pc |-> "loop", asked |-> req, answer |-> gui]

\* One turn of `for other in others` of handle_image_cluster /
\* handle_video_cluster; ans is the last answer of the decision source so far
HandlePair(mod, inter, b, o, lc, dg, ans, gui, choice) ==
    LET stay == [loc |-> lc, best |-> b, pc |-> "loop", asked |-> <<>>, answer |-> ans,
                 hashed |-> {}]
        \* sha_best = hash_file_sha256(best[0]); sha_other = hash_file_sha256(other)
        sha == [hashed |-> {b, o}]
    IN  IF ~Exists(lc, b) \/ ~Exists(lc, o) THEN stay
        ELSE IF IsExactDuplicate(dg[b], dg[o])
        THEN sha @@ [stay EXCEPT !.loc = move_to_duplicates(lc, o)]
        ELSE IF inter
        THEN (IF mod = "main" THEN sha @@ ReviewMain(b, o, lc, gui)
              ELSE IF ThresholdLookup(mod) = "NameError"
              THEN sha @@ [stay EXCEPT !.pc = "raised"]
              ELSE sha @@ ReviewClustering(b, o, lc, gui, choice))
        ELSE sha @@ [stay EXCEPT !.loc = move_to_duplicates(lc, o)]

\* the clusters of a run: every file in one cluster, image clusters first
Interval(a, b) == [k \in 1 .. (b - a + 1) |-> a + k - 1]
ClusterLists ==
    {<<[type |-> t, files |-> Interval(1, NumFiles)]>> : t \in {"image", "video"}}
    \cup {<<[type |-> "image", files |-> Interval(1, k)],
            [type |-> "video", files |-> Interval(k + 1, NumFiles)]>>
          : k \in 2 .. (NumFiles - 2)}

ResolveIdle ==
    /\ handlers = "main"
    /\ interactive = FALSE
    /\ clusters = <<>>
    /\ digest = EmptyDict
    /\ loc = EmptyDict
    /\ rpc = "off"
    /\ ci = 0
    /\ best = 0
    /\ others = <<>>
    /\ asked = <<>>
    /\ answer = "none"
    /\ sha_read = {}

\* The state when main.py starts to resolve the clusters: at most one file
\* has vanished or become unreadable since clustering
ResolveInit ==
    /\ handlers \in {"main", "clustering"}
    /\ interactive \in BOOLEAN
    /\ clusters \in ClusterLists
    /\ digest \in [Files -> 0 .. 2]
    /\ loc \in [Files -> {"orig", "gone"}]
    /\ Cardinality({f \in Files : digest[f] = 0 \/ loc[f] = "gone"}) <= 1
    /\ rpc = "idle"
    /\ ci = 1
    /\ best = 0
    /\ others = <<>>
    /\ asked = <<>>
    /\ answer = "none"
    /\ sha_read = {}

\* for cluster in img_clusters: handle_image_cluster(cluster, ...): the call
\* sorts the members by score and takes the first as best
HandleStart ==
    /\ rpc = "idle"
    /\ ci <= Len(clusters)
    /\ LET scored == Scored(Range(clusters[ci].files))
       IN  /\ best' = scored[1]
           /\ others' = Tail(scored)
    /\ rpc' = "loop"
    /\ UNCHANGED <<handlers, interactive, clusters, digest, loc, ci, asked, answer, sha_read>>

\* one turn of the loop over others; the reviewer and the prompt are read
\* in interactive mode only, the prompt only when the reviewer failed
HandleOther ==
    /\ rpc = "loop"
    /\ others # <<>>
    /\ \E gui \in IF interactive THEN GuiOutcomes ELSE {"closed"} :
       \E choice \in IF gui \in {"ImportError", "RuntimeError"} THEN PromptAnswers ELSE {"s"} :
          LET r == HandlePair(handlers, interactive, best, Head(others), loc, digest,
                              answer, gui, choice)
          IN  /\ loc' = r.loc
              /\ best' = r.best
              /\ rpc' = r.pc
              /\ asked' = asked \o r.asked
              /\ answer' = r.answer
              /\ sha_read' = sha_read \cup r.hashed
    /\ others' = Tail(others)
    /\ UNCHANGED <<handlers, interactive, clusters, digest, ci>>

\* the handler returns, the run goes on with the next cluster
HandleReturn ==
    /\ rpc = "loop"
    /\ others = <<>>
    /\ rpc' = "idle"
    /\ ci' = ci + 1
    /\ best' = 0
    /\ UNCHANGED <<handlers, interactive, clusters, digest, loc, others, asked, answer,
                   sha_read>>

\* main() returns after the last cluster
RunEnd ==
    /\ rpc = "idle"
    /\ ci > Len(clusters)
    /\ rpc' = "done"
    /\ UNCHANGED <<handlers, interactive, clusters, digest, loc, ci, best, others, asked, answer,
                   sha_read>>

\* ------------------------------------------------ the web review session
\* the path move_to_duplicates gives a file in the duplicates directory
DestOf(f) == 100 + f

\* os.path.exists(path)
PathExists(paths, p) == p \in paths

\* shutil.move(src, dst)
Move(paths, src, dst) == (paths \ {src}) \cup {dst}

\* the bytes of the session's files: files 1 and 2 hold the same bytes, 3 and
\* 4 do, and so on
BytesOf(f) == (f + 1) \div 2

\* the similarity review computes for the pair: hash_image_phash of a missing
\* file is None and hash_video_frames of it is [], both give 0.0
ReviewSim(type, paths, a, b) ==
    IF type = "image"
    THEN (IF PathExists(paths, a) /\ PathExists(paths, b)
          THEN ImageSim(PhashOf(BytesOf(a)), PhashOf(BytesOf(b)))
          ELSE [num |-> 0, den |-> 1])
    ELSE compare_video_hashes(
             IF PathExists(paths, a) THEN VideoHashOf(BytesOf(a)) ELSE <<>>,
             IF PathExists(paths, b) THEN VideoHashOf(BytesOf(b)) ELSE <<>>)

\* files.pop(n), n counted from 0
PopHead(files, n) == Tail(files)
PopNothing(files, n) == files
Pop(files, n) == [k \in 1 .. (Len(files) - 1) |-> IF k <= n THEN files[k] ELSE files[k + 1]]

\* state.history.append(action); if len(state.history) > 10: state.history.pop(0)
RecordKeepOldest(h, action) ==
    IF Len(h) + 1 > HistoryCap THEN h ELSE Append(h, action)
Record(h, action) ==
    IF Len(h) + 1 > HistoryCap THEN Tail(Append(h, action)) ELSE Append(h, action)

\* the history entry of a decision; None is 0
Action(choice, moved_path, dest_path, index, files) ==
    [choice |-> choice, moved_path |-> moved_path, dest_path |-> dest_path,
     index |-> index, files |-> files]

\* what a request leaves behind: the session, the paths, the entries it
\* recorded and whether it ended in an unhandled exception
Outcome(cl, idx, h, paths, rec, err) ==
    [clusters |-> cl, index |-> idx, history |-> h, fs |-> paths, recorded |-> rec,
     error |-> err]

\* GET /review
Review(cl, idx, h, paths, t) ==
    IF idx >= Len(cl) THEN Outcome(cl, idx, h, paths, <<>>, FALSE)
    ELSE LET files == cl[idx + 1].files
         IN  IF Len(files) < 2 THEN Outcome(cl, idx + 1, h, paths, <<>>, FALSE)
             ELSE IF ~MeetsThreshold(ReviewSim(cl[idx + 1].type, paths, files[1], files[2]), t)
             THEN Outcome([cl EXCEPT ![idx + 1].files = Pop(files, 1)], idx, h, paths,
                          <<>>, FALSE)
             ELSE Outcome(cl, idx, h, paths, <<>>, FALSE)

\* GET /review answers with review.html, the pair files[0], files[1] on it
ReviewPresents(cl, idx, paths, t) ==
    /\ idx < Len(cl)
    /\ Len(cl[idx + 1].files) >= 2
    /\ MeetsThreshold(ReviewSim(cl[idx + 1].type, paths,
                                cl[idx + 1].files[1], cl[idx + 1].files[2]), t)

\* POST /decision/{choice}
HandleDecision(cl, idx, h, paths, choice) ==
    IF idx >= Len(cl) THEN Outcome(cl, idx, h, paths, <<>>, FALSE)
    ELSE LET files == cl[idx + 1].files
             \* files[0] / files[1] of a shorter list: IndexError
             short == Len(files) < 2
             left_path == files[1]
             right_path == files[2]
             moved == IF choice = "left" THEN right_path ELSE left_path
             \* shutil.move of a missing file raises
             missing == choice \in {"left", "right"} /\ ~PathExists(paths, moved)
             action == IF choice = "skip" THEN Action("skip", 0, 0, idx, files)
                       ELSE Action(choice, moved, DestOf(moved), idx, files)
             rest == IF choice = "right" THEN Pop(files, 0) ELSE Pop(files, 1)
         IN  IF short \/ missing THEN Outcome(cl, idx, h, paths, <<>>, TRUE)
             ELSE IF choice \in {"left", "right", "skip"}
             THEN Outcome([cl EXCEPT ![idx + 1].files = rest],
                          IF Len(rest) < 2 THEN idx + 1 ELSE idx,
                          Record(h, action),
                          IF choice = "skip" THEN paths ELSE Move(paths, moved, DestOf(moved)),
                          <<action>>, FALSE)
             ELSE Outcome(cl, IF Len(files) < 2 THEN idx + 1 ELSE idx, h, paths, <<>>, FALSE)

\* the move back of undo_decision
MoveBackAlways(paths, e) == Move(paths, e.dest_path, e.moved_path)
MoveBack(paths, e) ==
    IF e.choice \in {"left", "right"} /\ e.dest_path # 0 /\ PathExists(paths, e.dest_path)
    THEN Move(paths, e.dest_path, e.moved_path)
    ELSE paths

\* the list undo_decision puts back
RestoredKeepsCurrent(cl, e) == cl[e.index + 1].files
Restored(cl, e) == e.files

\* POST /review/undo
UndoDecision(cl, idx, h, paths) ==
    IF h = <<>> THEN Outcome(cl, idx, h, paths, <<>>, FALSE)
    ELSE LET e == h[Len(h)]
         IN  Outcome([cl EXCEPT ![e.index + 1].files = Restored(cl, e)], e.index,
                     SubSeq(h, 1, Len(h) - 1), MoveBack(paths, e), <<>>, FALSE)

\* the decisions a client posts: the three recorded ones and any other word
Choices == {"left", "right", "skip", "both"}

\* state.clusters as run_scan leaves it: every cluster sorted by score
SessionLists ==
    {<<[type |-> t, files |-> Scored(1 .. NumFiles)]>> : t \in {"image", "video"}}
    \cup {<<[type |-> "image", files |-> Scored(1 .. k)],
            [type |-> "video", files |-> Scored((k + 1) .. NumFiles)]>>
          : k \in 2 .. (NumFiles - 2)}

NoAction == Action("none", 0, 0, 0, <<>>)

ReviewIdle ==
    /\ state_clusters = <<>>
    /\ current_index = 0
    /\ state_threshold = 89
    /\ history = <<>>
    /\ fs = {}
    /\ log = <<>>
    /\ undone = NoAction
    /\ error = FALSE

\* The session when the scan has ended with clusters to review (status
\* "ready"), under the default threshold or threshold 0
ReviewInit ==
    /\ state_clusters \in SessionLists
    /\ state_threshold \in {0, 89}
    /\ current_index = 0
    /\ history = <<>>
    /\ fs = UNION {Range(state_clusters[k].files) : k \in DOMAIN state_clusters}
    /\ log = <<>>
    /\ undone = NoAction
    /\ error = FALSE

Apply(r) ==
    /\ state_clusters' = r.clusters
    /\ current_index' = r.index
    /\ history' = r.history
    /\ fs' = r.fs
    /\ error' = r.error
    /\ UNCHANGED state_threshold

\* the same with one long cluster, every pair of it above the threshold
LongInit ==
    /\ state_clusters = <<[type |-> "image", files |-> Scored(1 .. LongCluster)]>>
    /\ state_threshold = 0
    /\ current_index = 0
    /\ history = <<>>
    /\ fs = Range(state_clusters[1].files)
    /\ log = <<>>
    /\ undone = NoAction
    /\ error = FALSE

ReviewRequest ==
    /\ Apply(Review(state_clusters, current_index, history, fs, state_threshold))
    /\ undone' = NoAction
    /\ UNCHANGED log

DecisionRequest(choice) ==
    LET r == HandleDecision(state_clusters, current_index, history, fs, choice)
    IN  /\ Apply(r)
        /\ log' = log \o r.recorded
        /\ undone' = NoAction

UndoRequest ==
    /\ Apply(UndoDecision(state_clusters, current_index, history, fs))
    /\ log' = IF history = <<>> THEN log ELSE SubSeq(log, 1, Len(log) - 1)
    /\ undone' = IF history = <<>> THEN NoAction ELSE history[Len(history)]

\* Somebody removes from the duplicates directory the file the last recorded
\* decision moved there; once in a session
DestinationRemoved ==
    /\ history # <<>>
    /\ history[Len(history)].dest_path # 0
    /\ PathExists(fs, history[Len(history)].dest_path)
    /\ \A k \in DOMAIN state_clusters :
           \A f \in Range(state_clusters[k].files) : f \in fs \/ DestOf(f) \in fs
    /\ \A e \in Range(log) : e.dest_path # 0 => (e.dest_path \in fs \/ e.moved_path \in fs)
    /\ fs' = fs \ {history[Len(history)].dest_path}
    /\ undone' = NoAction
    /\ UNCHANGED <<state_clusters, current_index, state_threshold, history, log, error>>


\* --------------------------------- handle_decision, statement by statement
\* POST /decision/{choice} of web_app.py taken apart into its statements, to
\* see the states between the move, the history append and the cursor update
NoStart == [clusters |-> <<>>, index |-> 0, history |-> <<>>, fs |-> {}, choice |-> "none"]

StepIdle ==
    /\ dpc = "idle"
    /\ d_choice = "none"
    /\ d_action = NoAction
    /\ d_start = NoStart

\* lines 282-299: the guard, files[0] and files[1], move_to_duplicates
DecisionEnter(choice) ==
    /\ dpc = "idle"
    /\ undone' = NoAction
    /\ d_action' = NoAction
    /\ UNCHANGED <<state_clusters, current_index, state_threshold, history, log>>
    /\ IF current_index >= Len(state_clusters)
       THEN /\ error' = FALSE
            /\ d_start' = NoStart
            /\ UNCHANGED <<fs, dpc, d_choice>>
       ELSE LET files == state_clusters[current_index + 1].files
                moved == IF choice = "left" THEN files[2] ELSE files[1]
            IN  IF \/ Len(files) < 2
                   \/ choice \in {"left", "right"} /\ ~PathExists(fs, moved)
                THEN /\ error' = TRUE
                     /\ d_start' = NoStart
                     /\ UNCHANGED <<fs, dpc, d_choice>>
                ELSE /\ error' = FALSE
                     /\ d_start' = [clusters |-> state_clusters, index |-> current_index,
                                    history |-> history, fs |-> fs, choice |-> choice]
                     /\ d_choice' = choice
                     /\ fs' = IF choice \in {"left", "right"}
                              THEN Move(fs, moved, DestOf(moved)) ELSE fs
                     /\ dpc' = IF choice \in {"left", "right", "skip"}
                               THEN "moved" ELSE "advance"

\* lines 295-296, 300-301, 304-305: action = (...), files.pop
DecisionPop ==
    /\ dpc = "moved"
    /\ LET files == state_clusters[current_index + 1].files
           moved == IF d_choice = "left" THEN files[2] ELSE files[1]
       IN  /\ d_action' = IF d_choice = "skip"
                          THEN Action("skip", 0, 0, current_index, files)
                          ELSE Action(d_choice, moved, DestOf(moved), current_index, files)
           /\ state_clusters' =
                  [state_clusters EXCEPT ![current_index + 1].files =
                       IF d_choice = "right" THEN Pop(files, 0) ELSE Pop(files, 1)]
    /\ dpc' = "record"
    /\ UNCHANGED <<current_index, state_threshold, history, fs, log, undone, error,
                   d_choice, d_start>>

\* lines 307-310: state.history.append(action) and the cap
DecisionRecord ==
    /\ dpc = "record"
    /\ history' = Record(history, d_action)
    /\ log' = Append(log, d_action)
    /\ dpc' = "advance"
    /\ UNCHANGED <<state_clusters, current_index, state_threshold, fs, undone, error,
                   d_choice, d_action, d_start>>

\* lines 312-316: the cursor and the redirect
DecisionAdvance ==
    /\ dpc = "advance"
    /\ current_index' = IF Len(state_clusters[current_index + 1].files) < 2
                        THEN current_index + 1 ELSE current_index
    /\ dpc' = "idle"
    /\ d_choice' = "none"
    /\ d_action' = NoAction
    /\ UNCHANGED <<state_clusters, state_threshold, history, fs, log, undone, error,
                   d_start>>

\* another request, between two decisions
Between(request) ==
    /\ dpc = "idle"
    /\ request
    /\ d_start' = NoStart
    /\ UNCHANGED <<dpc, d_choice, d_action>>

\* ------------------------------------------------------ the entry points
EntryPoints == {"cli", "scan", "cluster_images", "cluster_videos"}

\* threshold arguments, in hundredths
EntryThresholds == {-50, -1, 0, 50, 89, 100, 101, 150}

\* 0.0 <= threshold <= 1.0
InRange(t) == 0 <= t /\ t <= 100

\* what ScanState.reset leaves in the fields start_scan writes
SessionFresh == [status |-> "idle", threshold |-> 89]

\* --threshold is optional, the Form field of POST /scan has the default
\* 0.89, cluster_images and cluster_videos take the threshold as it comes
Arguments(e) ==
    {[given |-> TRUE, value |-> t] : t \in EntryThresholds}
    \cup (IF e \in {"cli", "scan"} THEN {[given |-> FALSE, value |-> 89]} ELSE {})

EntryIdle ==
    /\ entry = "cli"
    /\ arg = [given |-> FALSE, value |-> 89]
    /\ dir_ok = TRUE
    /\ epc = "off"
    /\ made_dir = FALSE
    /\ hashed = FALSE
    /\ session = SessionFresh
    /\ result = "none"

EntryInit ==
    /\ entry \in EntryPoints
    /\ arg \in Arguments(entry)
    /\ dir_ok \in BOOLEAN
    /\ epc = "start"
    /\ made_dir = FALSE
    /\ hashed = FALSE
    /\ session = SessionFresh
    /\ result = "none"

\* main: parse_args and the validation of --threshold; parser.error exits
MainValidate ==
    /\ entry = "cli"
    /\ epc = "start"
    /\ IF arg.given /\ ~InRange(arg.value)
       THEN epc' = "exit" /\ result' = "rejected"
       ELSE epc' = "makedirs" /\ UNCHANGED result
    /\ UNCHANGED <<entry, arg, dir_ok, made_dir, hashed, session>>

\* main: os.makedirs(duplicates_dir, exist_ok=True), which also creates a
\* missing base directory
MainMakedirs ==
    /\ entry = "cli"
    /\ epc = "makedirs"
    /\ made_dir' = TRUE
    /\ epc' = "cluster"
    /\ UNCHANGED <<entry, arg, dir_ok, hashed, session, result>>

\* start_scan: the directory test, state.reset(), the state fields, the thread
StartScan ==
    /\ entry = "scan"
    /\ epc = "start"
    /\ IF ~dir_ok
       THEN epc' = "exit" /\ result' = "error_page" /\ UNCHANGED session
       ELSE /\ session' = [status |-> "scanning", threshold |-> arg.value]
            /\ epc' = "makedirs"
            /\ UNCHANGED result
    /\ UNCHANGED <<entry, arg, dir_ok, made_dir, hashed>>

\* run_scan: os.makedirs(state.duplicates_dir, exist_ok=True)
RunScanMakedirs ==
    /\ entry = "scan"
    /\ epc = "makedirs"
    /\ made_dir' = TRUE
    /\ epc' = "cluster"
    /\ UNCHANGED <<entry, arg, dir_ok, hashed, session, result>>

\* cluster_images / cluster_videos, called by main, by run_scan or directly:
\* the files go to hash_fingerprint_parallel and the later stages
ClusterCall ==
    /\ \/ entry \in {"cli", "scan"} /\ epc = "cluster"
       \/ entry \in {"cluster_images", "cluster_videos"} /\ epc = "start"
    /\ hashed' = TRUE
    /\ epc' = "clustered"
    /\ UNCHANGED <<entry, arg, dir_ok, made_dir, session, result>>

\* the entry point returns; run_scan sets state.status
EntryReturn ==
    /\ epc = "clustered"
    /\ epc' = "exit"
    /\ result' = "done"
    /\ session' = IF entry = "scan" THEN [session EXCEPT !.status = "ready"] ELSE session
    /\ UNCHANGED <<entry, arg, dir_ok, made_dir, hashed>>

\* ------------------------------------------------- web access control
\* web_app.py: auth_middleware, login_page, login, logout and the routes behind
\* the middleware. A path is the sequence of its characters.
NumClients == 2
Clients == 1 .. NumClients

NoUser == "none"

\* DEFAULT_USERS = "admin:medman"
ALLOWED_USERS == [admin |-> "medman"]

Usernames == {"admin", "guest"}
Passwords == {"medman", "wrong"}

LoginPath == <<"/", "l", "o", "g", "i", "n">>
LogoutPath == <<"/", "l", "o", "g", "o", "u", "t">>
StaticPrefix == <<"/", "s", "t", "a", "t", "i", "c">>
RootPath == <<"/">>
ScanPath == <<"/", "s", "c", "a", "n">>
BrowsePath == <<"/", "a", "p", "i", "/", "b", "r", "o", "w", "s", "e">>

\* a file below the static mount, a path that begins like the mount, a path
\* no route answers
StaticFile == StaticPrefix \o <<"/", "a", ".", "j", "s">>
StaticLike == StaticPrefix \o <<"x">>
UnknownPath == <<"/", "x">>
OtherPaths == {StaticFile, StaticLike, UnknownPath}

\* str.startswith
StartsWith(s, prefix) ==
    Len(s) >= Len(prefix) /\ SubSeq(s, 1, Len(prefix)) = prefix

\* auth_middleware: the paths that skip the session test
AuthSkipped(path) ==
    path \in {LoginPath, LogoutPath} \/ StartsWith(path, StaticPrefix)

\* auth_middleware answers the request itself
Denied(c, path) == ~AuthSkipped(path) /\ session_user[c] = NoUser

\* app.mount("/static", StaticFiles(...)): the mount takes /static/<path>
UnderStaticMount(path) == StartsWith(path, StaticPrefix \o <<"/">>)

NoResponse ==
    [client |-> 0, method |-> "GET", path |-> <<>>, user |-> NoUser,
     username |-> "", password |-> "", status |-> 0, location |-> <<>>,
     handler |-> "none"]

\* one request and its answer; user is the session's user when it arrived
Answer(c, method, path, username, password, status, location, handler) ==
    response' = [client |-> c, method |-> method, path |-> path,
                 user |-> session_user[c],
                 username |-> username, password |-> password,
                 status |-> status, location |-> location, handler |-> handler]

\* auth_middleware: return RedirectResponse("/login", status_code=303)
RedirectToLogin(c, method, path) ==
    /\ Answer(c, method, path, "", "", 303, LoginPath, "none")
    /\ UNCHANGED <<session_user, app_status>>

AuthIdle ==
    /\ session_user = [c \in Clients |-> NoUser]
    /\ app_status = "idle"
    /\ response = NoResponse

\* GET /login
LoginPage(c) ==
    /\ Answer(c, "GET", LoginPath, "", "", 200, <<>>, "login_page")
    /\ UNCHANGED <<session_user, app_status>>

\* POST /login
Login(c, username, password) ==
    IF username \in DOMAIN ALLOWED_USERS /\ ALLOWED_USERS[username] = password
    THEN /\ session_user' = [session_user EXCEPT ![c] = username]
         /\ Answer(c, "POST", LoginPath, username, password, 303, RootPath, "login")
         /\ UNCHANGED app_status
    ELSE /\ Answer(c, "POST", LoginPath, username, password, 200, <<>>, "login")
         /\ UNCHANGED <<session_user, app_status>>

\* GET /logout: request.session.clear()
Logout(c) ==
    /\ session_user' = [session_user EXCEPT ![c] = NoUser]
    /\ Answer(c, "GET", LogoutPath, "", "", 303, LoginPath, "logout")
    /\ UNCHANGED app_status

\* GET /
Index(c) ==
    IF Denied(c, RootPath)
    THEN RedirectToLogin(c, "GET", RootPath)
    ELSE /\ Answer(c, "GET", RootPath, "", "", 200, <<>>, "index")
         /\ UNCHANGED <<session_user, app_status>>

\* POST /scan: start_scan writes the ScanState and starts run_scan
ScanRequest(c, isdir) ==
    IF Denied(c, ScanPath)
    THEN RedirectToLogin(c, "POST", ScanPath)
    ELSE /\ Answer(c, "POST", ScanPath, "", "", 200, <<>>, "start_scan")
         /\ app_status' = IF isdir THEN "scanning" ELSE app_status
         /\ UNCHANGED session_user

\* run_scan, the thread start_scan started, comes to its end
ScanThreadEnds ==
    /\ app_status = "scanning"
    /\ app_status' \in {"ready", "done"}
    /\ UNCHANGED <<session_user, response>>

\* GET /api/browse
Browse(c) ==
    IF Denied(c, BrowsePath)
    THEN RedirectToLogin(c, "GET", BrowsePath)
    ELSE /\ Answer(c, "GET", BrowsePath, "", "", 200, <<>>, "browse_files")
         /\ UNCHANGED <<session_user, app_status>>

\* GET of a path that is not a route of the application: the static mount
\* answers the paths below /static/, the router answers the others with 404
OtherRequest(c, path) ==
    /\ IF Denied(c, path)
       THEN RedirectToLogin(c, "GET", path)
       ELSE /\ IF UnderStaticMount(path)
               THEN Answer(c, "GET", path, "", "", 200, <<>>, "StaticFiles")
               ELSE Answer(c, "GET", path, "", "", 404, <<>>, "none")
            /\ UNCHANGED <<session_user, app_status>>

\* ------------------------------------------- the video signature functions
\* hash_video_frames and compare_video_hashes of hashing.py, called once on
\* arguments taken from bounded sets
MaxSignature == 2
MaxFrameCount == 5
MaxSamples == 4

NoOut == [done |-> FALSE, value |-> <<>>, indices |-> <<>>]

PureIdle ==
    /\ called = "none"
    /\ call_args = <<>>
    /\ call_out = NoOut

\* the frame hashes of the signatures that are compared: hashes 0, 24 and 64
\* bits away from the hash without a set bit
SignatureHashes == {0, 24, 64}

\* the lists hash_video_frames can return with up to MaxSignature hashes
RECURSIVE SeqsUpTo(_, _)
SeqsUpTo(S, n) ==
    IF n = 0 THEN {<<>>}
    ELSE LET shorter == SeqsUpTo(S, n - 1)
         IN  shorter \cup {Append(q, x) : q \in {r \in shorter : Len(r) = n - 1}, x \in S}
Signatures == SeqsUpTo(SignatureHashes, MaxSignature)

CompareInit ==
    /\ called = "compare_video_hashes"
    /\ call_args \in [hashes1 : Signatures, hashes2 : Signatures]
    /\ call_out = NoOut

\* compare_video_hashes(hashes1, hashes2)
CallCompare ==
    /\ called = "compare_video_hashes"
    /\ ~call_out.done
    /\ call_out' = [done |-> TRUE, value |-> compare_video_hashes(call_args.hashes1, call_args.hashes2),
               indices |-> <<>>]
    /\ UNCHANGED <<called, call_args>>

\* int(x) of a float x >= 0 that is the quotient a / b
IntOfQuotient(a, b) == a \div b

\* indices = [int(i * (frame_count - 1) / (sample_count - 1))
\*            if sample_count > 1 else 0 for i in range(sample_count)]
IndicesToFrameCount(frame_count, sample_count) ==
    [k \in 1 .. sample_count |->
        IF sample_count > 1
        THEN IntOfQuotient((k - 1) * frame_count, sample_count - 1)
        ELSE 0]
Indices(frame_count, sample_count) ==
    [k \in 1 .. sample_count |->
        IF sample_count > 1
        THEN IntOfQuotient((k - 1) * (frame_count - 1), sample_count - 1)
        ELSE 0]

\* imagehash.phash of the frame at index idx
FrameHash(idx) == idx % (HashBits + 1)

\* the loop over indices: a frame that cannot be read is passed over
RECURSIVE HashesFrom(_, _, _)
HashesFrom(indices, unreadable, n) ==
    IF n > Len(indices) THEN <<>>
    ELSE (IF indices[n] \in unreadable THEN <<>> ELSE <<FrameHash(indices[n])>>)
         \o HashesFrom(indices, unreadable, n + 1)

\* hash_video_frames(path, sample_count) of a stream that opens or not, with
\* the frame count the decoder reports and the frames cap.read() fails on
HashVideoFrames(opened, frame_count, sample_count, unreadable) ==
    IF ~opened \/ frame_count <= 0 THEN [value |-> <<>>, indices |-> <<>>]
    ELSE LET indices == Indices(frame_count, sample_count)
         IN  [value |-> HashesFrom(indices, unreadable, 1), indices |-> indices]

SamplingInit ==
    /\ called = "hash_video_frames"
    /\ call_args \in [opened : BOOLEAN, frame_count : (-1) .. MaxFrameCount,
                 sample_count : 1 .. MaxSamples,
                 unreadable : SUBSET (0 .. (MaxFrameCount - 1))]
    /\ call_out = NoOut

CallHashVideoFrames ==
    /\ called = "hash_video_frames"
    /\ ~call_out.done
    /\ LET r == HashVideoFrames(call_args.opened, call_args.frame_count, call_args.sample_count,
                                call_args.unreadable)
       IN  call_out' = [done |-> TRUE, value |-> r.value, indices |-> r.indices]
    /\ UNCHANGED <<called, call_args>>

\* ------------------------------------------ POST /scan and run_scan
\* The scan state start_scan and the threads of run_scan write, a thread
\* statement by statement; the session's clusters, cursor, threshold, history
\* and files are the variables of the review, state.status is app_status.
NumDirs == 3
NumScans == 2

\* the directories a scan is requested for; d holds the files FilesIn(d), all
\* of the same bytes, the last directory holds one file only
Dirs == 1 .. NumDirs
FilesIn(d) == IF d = NumDirs THEN {2 * d - 1} ELSE {2 * d - 1, 2 * d}

\* None
NoDir == 0
NoDuplicatesDir == <<>>

\* os.path.join(base_dir, "duplicates")
DuplicatesDirOf(d) == <<d, "duplicates">>

\* the thread start_scan starts
Thread(directory, t) ==
    [directory |-> directory, threshold |-> t, pc |-> "begin", image_paths |-> {},
     all_clusters |-> <<>>, status |-> "none"]

ScanIdle ==
    /\ state_directory = NoDir
    /\ state_duplicates_dir = NoDuplicatesDir
    /\ scan_threads = <<>>

\* the session before the first scan, the files of the directories in place
ScanInit ==
    /\ ScanIdle
    /\ state_clusters = <<>>
    /\ current_index = 0
    /\ state_threshold = 89
    /\ history = <<>>
    /\ fs = UNION {FilesIn(d) : d \in Dirs}
    /\ log = <<>>
    /\ undone = NoAction
    /\ error = FALSE

\* POST /scan: state.reset(), the three fields, the thread
ScanAccepted(directory, t, isdir) ==
    /\ Len(scan_threads) < NumScans
    /\ IF ~isdir
       THEN UNCHANGED <<reviewVars, app_status, scanVars, tripVars>>
       ELSE /\ state_directory' = directory
            /\ state_threshold' = t
            /\ app_status' = "scanning"
            /\ state_clusters' = <<>>
            /\ current_index' = 0
            /\ state_duplicates_dir' = NoDuplicatesDir
            /\ history' = <<>>
            /\ scan_threads' = Append(scan_threads, Thread(directory, t))
            /\ log' = <<>>
            /\ undone' = NoAction
            /\ error' = FALSE
            /\ UNCHANGED fs
    /\ UNCHANGED <<session_user, response>>

\* a thread goes on to pc
ThreadAt(k, pc) == scan_threads[k].pc = pc
Goes(k, pc) == [scan_threads EXCEPT ![k].pc = pc]

\* run_scan: state.status = "scanning"
ScanMark(k) ==
    /\ ThreadAt(k, "begin")
    /\ app_status' = "scanning"
    /\ scan_threads' = Goes(k, "duplicates_dir")
    /\ UNCHANGED <<reviewVars, state_directory, state_duplicates_dir, session_user, response>>

\* run_scan: state.duplicates_dir = os.path.join(base_dir, "duplicates")
ScanDuplicatesDir(k) ==
    /\ ThreadAt(k, "duplicates_dir")
    /\ state_duplicates_dir' = DuplicatesDirOf(scan_threads[k].directory)
    /\ scan_threads' = Goes(k, "walk")
    /\ UNCHANGED <<reviewVars, state_directory, authVars>>

\* run_scan: os.walk(base_dir); `state.duplicates_dir in root_dir` raises
\* TypeError when the field is None, outside the try block: the thread ends
ScanWalk(k) ==
    /\ ThreadAt(k, "walk")
    /\ scan_threads' =
           IF state_duplicates_dir = NoDuplicatesDir
           THEN Goes(k, "ended")
           ELSE [scan_threads EXCEPT ![k].pc = "cluster",
                                     ![k].image_paths = FilesIn(scan_threads[k].directory) \cap fs]
    /\ UNCHANGED <<reviewVars, state_directory, state_duplicates_dir, authVars>>

\* what cluster_images returns for the files of one directory and the lists
\* run_scan makes of it: files of the same bytes are one cluster
ScanResult(found) ==
    IF Cardinality(found) >= 2
    THEN <<[type |-> "image", files |-> Scored(found)]>>
    ELSE <<>>

\* run_scan: cluster_images and cluster_videos inside try, the except branch,
\* and the preparation of all_clusters
ScanCluster(k, raises) ==
    /\ ThreadAt(k, "cluster")
    /\ IF raises
       THEN /\ app_status' = "error"
            /\ scan_threads' = [scan_threads EXCEPT ![k].pc = "ended", ![k].status = "error"]
       ELSE /\ scan_threads' = [scan_threads EXCEPT
                                   ![k].pc = "clusters",
                                   ![k].all_clusters = ScanResult(scan_threads[k].image_paths)]
            /\ UNCHANGED app_status
    /\ UNCHANGED <<reviewVars, state_directory, state_duplicates_dir, session_user, response>>

\* run_scan: state.clusters = all_clusters
ScanPublish(k) ==
    /\ ThreadAt(k, "clusters")
    /\ state_clusters' = scan_threads[k].all_clusters
    /\ scan_threads' = Goes(k, "current_index")
    /\ UNCHANGED <<current_index, state_threshold, history, fs, log, undone, error,
                   state_directory, state_duplicates_dir, authVars>>

\* run_scan: state.current_index = 0
ScanCursor(k) ==
    /\ ThreadAt(k, "current_index")
    /\ current_index' = 0
    /\ scan_threads' = Goes(k, "status")
    /\ UNCHANGED <<state_clusters, state_threshold, history, fs, log, undone, error,
                   state_directory, state_duplicates_dir, authVars>>

\* run_scan: state.status = "ready" if all_clusters else "done"
ScanStatus(k) ==
    /\ ThreadAt(k, "status")
    /\ LET status == IF scan_threads[k].all_clusters # <<>> THEN "ready" ELSE "done"
       IN  /\ app_status' = status
           /\ scan_threads' = [scan_threads EXCEPT ![k].pc = "ended", ![k].status = status]
    /\ UNCHANGED <<reviewVars, state_directory, state_duplicates_dir, session_user, response>>

\* ------------------------------------------- decisions and their undos
\* A run of recorded decisions followed by as many undos, in a session that
\* has seen other requests before; nobody else touches the files.
MaxTrip == 6

\* the session and the files
Session(cl, idx, h, paths, n) ==
    [clusters |-> cl, index |-> idx, history |-> h, fs |-> paths, n |-> n]
NoTrip == Session(<<>>, 0, <<>>, {}, 0)

TripIdle ==
    /\ trip_pc = "before"
    /\ trip_start = NoTrip
    /\ trip_n = 0

\* a request before the run
TripPrior(request) ==
    /\ trip_pc = "before"
    /\ request
    /\ UNCHANGED tripVars

\* POST /decision/{choice} of the run, a decision that is recorded
TripDecide(choice) ==
    /\ trip_pc \in {"before", "deciding"}
    /\ trip_n < MaxTrip
    /\ HandleDecision(state_clusters, current_index, history, fs, choice).recorded # <<>>
    /\ DecisionRequest(choice)
    /\ trip_pc' = "deciding"
    /\ trip_start' =
           IF trip_pc = "before"
           THEN Session(state_clusters, current_index, history, fs, 1)
           ELSE [trip_start EXCEPT !.n = @ + 1]
    /\ trip_n' = trip_n + 1

\* POST /review/undo of the run
TripUndo ==
    /\ trip_pc \in {"deciding", "undoing"}
    /\ trip_n > 0
    /\ UndoRequest
    /\ trip_pc' = IF trip_n = 1 THEN "back" ELSE "undoing"
    /\ trip_n' = trip_n - 1
    /\ UNCHANGED trip_start

ExtraIdle == AuthIdle /\ StepIdle /\ StageIdle /\ PureIdle /\ ScanIdle /\ TripIdle

\* ------------------------------------------------------- specifications
\* UnionFind on its own: any sequence of find and union calls
InitUF == UFIdle /\ SchedIdle /\ ClusterIdle /\ ResolveIdle /\ ReviewIdle /\ EntryIdle /\ ExtraIdle

NextUF ==
    \/ \E x \in Paths : UFFind(x) /\ UNCHANGED <<schedVars, clusterVars, resolveVars, reviewVars, entryVars, extraVars>>
    \/ \E x \in Paths, y \in Paths : UFUnion(x, y) /\ UNCHANGED <<schedVars, clusterVars, resolveVars, reviewVars, entryVars, extraVars>>

SpecUF == InitUF /\ [][NextUF]_vars

\* One call of a hash_*_parallel function, its futures completing in any order
InitSched == SchedInit /\ UFIdle /\ ClusterIdle /\ ResolveIdle /\ ReviewIdle /\ EntryIdle /\ ExtraIdle

NextSched ==
    \/ SchedSubmit /\ UNCHANGED <<ufVars, clusterVars, resolveVars, reviewVars, entryVars, extraVars>>
    \/ \E f \in DOMAIN inputs : SchedComplete(f) /\ UNCHANGED <<ufVars, clusterVars, resolveVars, reviewVars, entryVars, extraVars>>
    \/ SchedReturn /\ UNCHANGED <<ufVars, clusterVars, resolveVars, reviewVars, entryVars, extraVars>>

SpecSched == InitSched /\ [][NextSched]_vars

\* One call of cluster_images or cluster_videos, the futures of its three pools completing in
\* any order
InitCluster == ClusterInit /\ UFIdle /\ SchedIdle /\ ResolveIdle /\ ReviewIdle /\ EntryIdle /\ ExtraIdle

NextCluster ==
    \/ FingerprintStage /\ UNCHANGED <<links, call, schedVars, resolveVars, reviewVars, entryVars, extraVars>>
    \/ ShaStage /\ UNCHANGED <<links, call, schedVars, resolveVars, reviewVars, entryVars, extraVars>>
    \/ PerceptualStage /\ UNCHANGED <<links, call, schedVars, resolveVars, reviewVars, entryVars, extraVars>>

SpecCluster == InitCluster /\ [][NextCluster]_vars

\* One run of main.py's resolution loops over the clusters
InitResolve == ResolveInit /\ UFIdle /\ SchedIdle /\ ClusterIdle /\ ReviewIdle /\ EntryIdle /\ ExtraIdle

NextResolve ==
    \/ HandleStart /\ UNCHANGED <<ufVars, schedVars, clusterVars, reviewVars, entryVars, extraVars>>
    \/ HandleOther /\ UNCHANGED <<ufVars, schedVars, clusterVars, reviewVars, entryVars, extraVars>>
    \/ HandleReturn /\ UNCHANGED <<ufVars, schedVars, clusterVars, reviewVars, entryVars, extraVars>>
    \/ RunEnd /\ UNCHANGED <<ufVars, schedVars, clusterVars, reviewVars, entryVars, extraVars>>

SpecResolve == InitResolve /\ [][NextResolve]_vars

\* A review session of the web application: requests in any order
InitReview == ReviewInit /\ UFIdle /\ SchedIdle /\ ClusterIdle /\ ResolveIdle /\ EntryIdle /\ ExtraIdle

NextReview ==
    \/ ReviewRequest /\ UNCHANGED <<ufVars, schedVars, clusterVars, resolveVars, entryVars, extraVars>>
    \/ \E choice \in Choices :
           DecisionRequest(choice) /\ UNCHANGED <<ufVars, schedVars, clusterVars, resolveVars, entryVars, extraVars>>
    \/ UndoRequest /\ UNCHANGED <<ufVars, schedVars, clusterVars, resolveVars, entryVars, extraVars>>
    \/ DestinationRemoved /\ UNCHANGED <<ufVars, schedVars, clusterVars, resolveVars, entryVars, extraVars>>

SpecReview == InitReview /\ [][NextReview]_vars

\* A review session over one long cluster whose files stay where the session
\* puts them
InitHistory == LongInit /\ UFIdle /\ SchedIdle /\ ClusterIdle /\ ResolveIdle /\ EntryIdle /\ ExtraIdle

NextHistory ==
    \/ ReviewRequest /\ UNCHANGED <<ufVars, schedVars, clusterVars, resolveVars, entryVars, extraVars>>
    \/ \E choice \in Choices :
           DecisionRequest(choice) /\ UNCHANGED <<ufVars, schedVars, clusterVars, resolveVars, entryVars, extraVars>>
    \/ UndoRequest /\ UNCHANGED <<ufVars, schedVars, clusterVars, resolveVars, entryVars, extraVars>>

SpecHistory == InitHistory /\ [][NextHistory]_vars

\* One call of an entry point that takes a threshold
InitEntry == EntryInit /\ UFIdle /\ SchedIdle /\ ClusterIdle /\ ResolveIdle /\ ReviewIdle /\ ExtraIdle

NextEntry ==
    \/ MainValidate /\ UNCHANGED <<ufVars, schedVars, clusterVars, resolveVars, reviewVars, extraVars>>
    \/ MainMakedirs /\ UNCHANGED <<ufVars, schedVars, clusterVars, resolveVars, reviewVars, extraVars>>
    \/ StartScan /\ UNCHANGED <<ufVars, schedVars, clusterVars, resolveVars, reviewVars, extraVars>>
    \/ RunScanMakedirs /\ UNCHANGED <<ufVars, schedVars, clusterVars, resolveVars, reviewVars, extraVars>>
    \/ ClusterCall /\ UNCHANGED <<ufVars, schedVars, clusterVars, resolveVars, reviewVars, extraVars>>
    \/ EntryReturn /\ UNCHANGED <<ufVars, schedVars, clusterVars, resolveVars, reviewVars, extraVars>>

SpecEntry == InitEntry /\ [][NextEntry]_vars

\* The web application answering the requests of its clients in any order
InitAuth == UFIdle /\ SchedIdle /\ ClusterIdle /\ ResolveIdle /\ ReviewIdle /\ EntryIdle /\ AuthIdle /\ StepIdle /\ StageIdle /\ PureIdle /\ ScanIdle /\ TripIdle

NextAuth ==
    \/ \E c \in Clients : LoginPage(c) /\ UNCHANGED <<ufVars, schedVars, clusterVars, resolveVars, reviewVars, entryVars, stepVars, stageVars, pureVars, scanVars, tripVars>>
    \/ \E c \in Clients, u \in Usernames, p \in Passwords :
           Login(c, u, p) /\ UNCHANGED <<ufVars, schedVars, clusterVars, resolveVars, reviewVars, entryVars, stepVars, stageVars, pureVars, scanVars, tripVars>>
    \/ \E c \in Clients : Logout(c) /\ UNCHANGED <<ufVars, schedVars, clusterVars, resolveVars, reviewVars, entryVars, stepVars, stageVars, pureVars, scanVars, tripVars>>
    \/ \E c \in Clients : Index(c) /\ UNCHANGED <<ufVars, schedVars, clusterVars, resolveVars, reviewVars, entryVars, stepVars, stageVars, pureVars, scanVars, tripVars>>
    \/ \E c \in Clients, isdir \in BOOLEAN :
           ScanRequest(c, isdir) /\ UNCHANGED <<ufVars, schedVars, clusterVars, resolveVars, reviewVars, entryVars, stepVars, stageVars, pureVars, scanVars, tripVars>>
    \/ ScanThreadEnds /\ UNCHANGED <<ufVars, schedVars, clusterVars, resolveVars, reviewVars, entryVars, stepVars, stageVars, pureVars, scanVars, tripVars>>
    \/ \E c \in Clients : Browse(c) /\ UNCHANGED <<ufVars, schedVars, clusterVars, resolveVars, reviewVars, entryVars, stepVars, stageVars, pureVars, scanVars, tripVars>>
    \/ \E c \in Clients, path \in OtherPaths :
           OtherRequest(c, path) /\ UNCHANGED <<ufVars, schedVars, clusterVars, resolveVars, reviewVars, entryVars, stepVars, stageVars, pureVars, scanVars, tripVars>>

SpecAuth == InitAuth /\ [][NextAuth]_vars

\* A review session in which handle_decision runs statement by statement
InitSteps == ReviewInit /\ UFIdle /\ SchedIdle /\ ClusterIdle /\ ResolveIdle /\ EntryIdle /\ AuthIdle /\ StepIdle /\ StageIdle /\ PureIdle /\ ScanIdle /\ TripIdle

NextSteps ==
    \/ \E choice \in Choices :
           DecisionEnter(choice) /\ UNCHANGED <<ufVars, schedVars, clusterVars, resolveVars, entryVars, authVars, stageVars, pureVars, scanVars, tripVars>>
    \/ DecisionPop /\ UNCHANGED <<ufVars, schedVars, clusterVars, resolveVars, entryVars, authVars, stageVars, pureVars, scanVars, tripVars>>
    \/ DecisionRecord /\ UNCHANGED <<ufVars, schedVars, clusterVars, resolveVars, entryVars, authVars, stageVars, pureVars, scanVars, tripVars>>
    \/ DecisionAdvance /\ UNCHANGED <<ufVars, schedVars, clusterVars, resolveVars, entryVars, authVars, stageVars, pureVars, scanVars, tripVars>>
    \/ Between(ReviewRequest) /\ UNCHANGED <<ufVars, schedVars, clusterVars, resolveVars, entryVars, authVars, stageVars, pureVars, scanVars, tripVars>>
    \/ Between(UndoRequest) /\ UNCHANGED <<ufVars, schedVars, clusterVars, resolveVars, entryVars, authVars, stageVars, pureVars, scanVars, tripVars>>

SpecSteps == InitSteps /\ [][NextSteps]_vars

\* One call of cluster_images, task by task
InitStages == StageInit /\ UFIdle /\ SchedIdle /\ ResolveIdle /\ ReviewIdle /\ EntryIdle /\ AuthIdle /\ StepIdle /\ PureIdle /\ ScanIdle /\ TripIdle

NextStages ==
    \/ PoolSubmit /\ UNCHANGED <<links, call, schedVars, resolveVars, reviewVars, entryVars, authVars, stepVars, pureVars, scanVars, tripVars>>
    \/ \E s \in Range(Stages), f \in 1 .. NumPaths :
           TaskStart(s, f) /\ UNCHANGED <<links, call, schedVars, resolveVars, reviewVars, entryVars, authVars, stepVars, pureVars, scanVars, tripVars>>
    \/ \E s \in Range(Stages), f \in 1 .. NumPaths :
           TaskEnd(s, f) /\ UNCHANGED <<links, call, schedVars, resolveVars, reviewVars, entryVars, authVars, stepVars, pureVars, scanVars, tripVars>>
    \/ \E f \in 1 .. NumPaths :
           PoolYield(f) /\ UNCHANGED <<links, call, schedVars, resolveVars, reviewVars, entryVars, authVars, stepVars, pureVars, scanVars, tripVars>>
    \/ PoolReturn /\ UNCHANGED <<links, call, schedVars, resolveVars, reviewVars, entryVars, authVars, stepVars, pureVars, scanVars, tripVars>>
    \/ CompareAndBuild /\ UNCHANGED <<links, call, schedVars, resolveVars, reviewVars, entryVars, authVars, stepVars, pureVars, scanVars, tripVars>>

SpecStages == InitStages /\ [][NextStages]_vars

\* One call of compare_video_hashes
InitCompare == CompareInit /\ UFIdle /\ SchedIdle /\ ClusterIdle /\ ResolveIdle /\ ReviewIdle /\ EntryIdle /\ AuthIdle /\ StepIdle /\ StageIdle /\ ScanIdle /\ TripIdle

NextCompare == CallCompare /\ UNCHANGED <<ufVars, schedVars, clusterVars, resolveVars, reviewVars, entryVars, authVars, stepVars, stageVars, scanVars, tripVars>>

SpecCompare == InitCompare /\ [][NextCompare]_vars

\* One call of hash_video_frames
InitSampling == SamplingInit /\ UFIdle /\ SchedIdle /\ ClusterIdle /\ ResolveIdle /\ ReviewIdle /\ EntryIdle /\ AuthIdle /\ StepIdle /\ StageIdle /\ ScanIdle /\ TripIdle

NextSampling == CallHashVideoFrames /\ UNCHANGED <<ufVars, schedVars, clusterVars, resolveVars, reviewVars, entryVars, authVars, stepVars, stageVars, scanVars, tripVars>>

SpecSampling == InitSampling /\ [][NextSampling]_vars

\* Either way of resolving clusters: a run of the command-line resolution
\* loops, or a review session of the web application
InitModes ==
    /\ \/ ResolveInit /\ ReviewIdle
       \/ ResolveIdle /\ ReviewInit
    /\ UFIdle /\ SchedIdle /\ ClusterIdle /\ EntryIdle /\ ExtraIdle

NextModes == NextResolve \/ NextReview

SpecModes == InitModes /\ [][NextModes]_vars

\* Scans requested one after the other or one over the other, decisions
\* posted at any time
InitScans ==
    /\ ScanInit
    /\ UFIdle /\ SchedIdle /\ ClusterIdle /\ ResolveIdle /\ EntryIdle
    /\ AuthIdle /\ StepIdle /\ StageIdle /\ PureIdle /\ TripIdle

NextScans ==
    \/ \E d \in Dirs, t \in {0, 89}, isdir \in BOOLEAN :
           ScanAccepted(d, t, isdir) /\ UNCHANGED <<ufVars, schedVars, clusterVars, resolveVars, entryVars, stepVars, stageVars, pureVars, tripVars>>
    \/ \E k \in DOMAIN scan_threads :
           ScanMark(k) /\ UNCHANGED <<ufVars, schedVars, clusterVars, resolveVars, entryVars, stepVars, stageVars, pureVars, tripVars>>
    \/ \E k \in DOMAIN scan_threads :
           ScanDuplicatesDir(k) /\ UNCHANGED <<ufVars, schedVars, clusterVars, resolveVars, entryVars, stepVars, stageVars, pureVars, tripVars>>
    \/ \E k \in DOMAIN scan_threads :
           ScanWalk(k) /\ UNCHANGED <<ufVars, schedVars, clusterVars, resolveVars, entryVars, stepVars, stageVars, pureVars, tripVars>>
    \/ \E k \in DOMAIN scan_threads, raises \in BOOLEAN :
           ScanCluster(k, raises) /\ UNCHANGED <<ufVars, schedVars, clusterVars, resolveVars, entryVars, stepVars, stageVars, pureVars, tripVars>>
    \/ \E k \in DOMAIN scan_threads :
           ScanPublish(k) /\ UNCHANGED <<ufVars, schedVars, clusterVars, resolveVars, entryVars, stepVars, stageVars, pureVars, tripVars>>
    \/ \E k \in DOMAIN scan_threads :
           ScanCursor(k) /\ UNCHANGED <<ufVars, schedVars, clusterVars, resolveVars, entryVars, stepVars, stageVars, pureVars, tripVars>>
    \/ \E k \in DOMAIN scan_threads :
           ScanStatus(k) /\ UNCHANGED <<ufVars, schedVars, clusterVars, resolveVars, entryVars, stepVars, stageVars, pureVars, tripVars>>
    \/ \E choice \in Choices :
           DecisionRequest(choice) /\ UNCHANGED <<ufVars, schedVars, clusterVars, resolveVars, entryVars, extraVars>>

SpecScans == InitScans /\ [][NextScans]_vars

\* Runs of decisions and undos, on the sessions of the review and on the
\* long cluster
InitTrips ==
    /\ ReviewInit \/ LongInit
    /\ UFIdle /\ SchedIdle /\ ClusterIdle /\ ResolveIdle /\ EntryIdle
    /\ AuthIdle /\ StepIdle /\ StageIdle /\ PureIdle /\ ScanIdle /\ TripIdle

NextTrips ==
    \/ TripPrior(ReviewRequest) /\ UNCHANGED <<ufVars, schedVars, clusterVars, resolveVars, entryVars, authVars, stepVars, stageVars, pureVars, scanVars>>
    \/ TripPrior(DecisionRequest("skip")) /\ UNCHANGED <<ufVars, schedVars, clusterVars, resolveVars, entryVars, authVars, stepVars, stageVars, pureVars, scanVars>>
    \/ TripPrior(UndoRequest) /\ UNCHANGED <<ufVars, schedVars, clusterVars, resolveVars, entryVars, authVars, stepVars, stageVars, pureVars, scanVars>>
    \/ \E choice \in {"left", "right", "skip"} :
           TripDecide(choice) /\ UNCHANGED <<ufVars, schedVars, clusterVars, resolveVars, entryVars, authVars, stepVars, stageVars, pureVars, scanVars>>
    \/ TripUndo /\ UNCHANGED <<ufVars, schedVars, clusterVars, resolveVars, entryVars, authVars, stepVars, stageVars, pureVars, scanVars>>

SpecTrips == InitTrips /\ [][NextTrips]_vars

\* A review session without undo, the reviewer going on until the end
InitForward == ReviewInit /\ UFIdle /\ SchedIdle /\ ClusterIdle /\ ResolveIdle /\ EntryIdle /\ ExtraIdle

NextForward ==
    \/ ReviewRequest /\ UNCHANGED <<ufVars, schedVars, clusterVars, resolveVars, entryVars, extraVars>>
    \/ \E choice \in Choices :
           DecisionRequest(choice) /\ UNCHANGED <<ufVars, schedVars, clusterVars, resolveVars, entryVars, extraVars>>

SpecForward == InitForward /\ [][NextForward]_vars /\ WF_vars(NextForward)

\* Whole calls of cluster_images and cluster_videos
InitOutput == OutputInit /\ UFIdle /\ SchedIdle /\ ResolveIdle /\ ReviewIdle /\ EntryIdle /\ ExtraIdle

NextOutput ==
    \E r1 \in BOOLEAN, r2 \in BOOLEAN, r3 \in BOOLEAN :
        WholeCall(r1, r2, r3) /\ UNCHANGED <<ufVars, schedVars, resolveVars, reviewVars, entryVars, extraVars>>

SpecOutput == InitOutput /\ [][NextOutput]_vars

\* --------------------------------------------------------------- claims
\* ---- reading the result of cluster_images (used by the properties)
SameCluster(cl, p, q) == \E k \in DOMAIN cl : p \in Range(cl[k]) /\ q \in Range(cl[k])
ClusterSets(cl) == {Range(cl[k]) : k \in DOMAIN cl}
Clustered(cl) == UNION ClusterSets(cl)
Fingerprinted == Range(DictKeys(fingerprints))
ExactGroupOf(p) == CHOOSE k \in DOMAIN exact_map : p \in Range(exact_map[k][2])
RepOf(p) == exact_map[ExactGroupOf(p)][2][1]
ValidReps == Range(DictKeys(phash_results))
\* the pairs of valid representatives whose similarity reaches t
SimilarPairs(t) ==
    UNION {{{a, b} : b \in {b \in ValidReps :
                /\ b > a
                /\ MeetsThreshold(Sim(media, DictGet(phash_results, a).of,
                                      DictGet(phash_results, b).of), t)}}
           : a \in ValidReps}
\* the pairs of files for which the run computed the same digest
SameDigestPairs ==
    UNION {{{a, b} : b \in {b \in DOMAIN sha_results :
                b > a /\ sha_results[a] = sha_results[b]}}
           : a \in DOMAIN sha_results}

\* C1: any two readable input files with identical bytes are placed in the
\* same cluster, for every threshold: both are SHA-hashed, share one exact
\* group, and the group is emitted together even when the perceptual hash of
\* its representative fails or matches nothing.
C1_IdenticalFilesClustered ==
    cpc = "done" =>
        \A p \in Paths, q \in Paths :
            (p # q /\ content[p] = content[q] /\ io[p] = "ok" /\ io[q] = "ok") =>
                /\ p \in DOMAIN sha_results /\ q \in DOMAIN sha_results
                /\ ExactGroupOf(p) = ExactGroupOf(q)
                /\ SameCluster(ret, p, q)

\* two identical files whose representative cannot be decoded, at threshold 1
C1_Witness ==
    /\ cpc = "done"
    /\ threshold = 100
    /\ \E p \in Paths, q \in Paths :
          /\ p # q /\ content[p] = content[q] /\ io[p] = "ok" /\ io[q] = "ok"
          /\ ~Decodable(content[p])
          /\ RepOf(p) \notin ValidReps
          /\ SameCluster(ret, p, q)

\* C2: the returned clusters are exactly the connected components of size >= 2
\* of the graph over the fingerprinted files whose edges are equal computed
\* digest and similarity >= threshold between valid representatives.
C2_ClustersAreComponents ==
    cpc = "done" =>
        LET edges == SameDigestPairs \cup SimilarPairs(threshold)
            comps == {Reach({p}, edges) : p \in Fingerprinted}
        IN  /\ ClusterSets(ret) = {c \in comps : Cardinality(c) >= 2}
            /\ Len(ret) = Cardinality(ClusterSets(ret))

\* a chain: a ~ b and b ~ c put a and c in one cluster although
\* similarity(a, c) is below the threshold
C2_Witness ==
    /\ cpc = "done"
    /\ \E a \in ValidReps, b \in ValidReps, c \in ValidReps :
          /\ {a, b} \in SimilarPairs(threshold)
          /\ {b, c} \in SimilarPairs(threshold)
          /\ a # c /\ {a, c} \notin SimilarPairs(threshold)
          /\ SameCluster(ret, a, c)

\* C3: threshold monotonicity: with the same inputs and hash results, every
\* pair of files that shares a cluster at the run's threshold also shares one
\* at every lower threshold.
C3_ThresholdMonotone ==
    cpc = "done" =>
        \A t1 \in Thresholds :
            t1 < threshold =>
                LET lower == Returned(BuildClusters(exact_map,
                                 CompareLoop(media, phash_results, t1).parent).clusters)
                IN  \A p \in Paths, q \in Paths :
                        SameCluster(ret, p, q) => SameCluster(lower, p, q)

\* a run with a cluster, and a lower threshold at which the grouping is
\* strictly coarser
C3_Witness ==
    /\ cpc = "done"
    /\ ret # <<>>
    /\ \E t1 \in Thresholds :
          /\ t1 < threshold
          /\ LET lower == Returned(BuildClusters(exact_map,
                              CompareLoop(media, phash_results, t1).parent).clusters)
             IN  /\ ClusterSets(lower) # ClusterSets(ret)
                 /\ \E p \in Paths, q \in Paths :
                        SameCluster(lower, p, q) /\ ~SameCluster(ret, p, q)

\* C4: a fingerprint collision is never taken as proof of duplication: an
\* exact group with two or more members holds only files with the same
\* digest, a file under a synthetic key is alone in its group, and two files
\* that share a fingerprint but differ in digest share a cluster only
\* through perceptual similarity >= threshold.
C4_CollisionNotDuplicate ==
    cpc \in {"exact", "done"} =>
        /\ \A k \in DOMAIN exact_map :
              /\ Len(exact_map[k][2]) >= 2 =>
                    \A p \in Range(exact_map[k][2]), q \in Range(exact_map[k][2]) :
                        /\ content[p] = content[q]
                        /\ p \in DOMAIN sha_results /\ q \in DOMAIN sha_results
              /\ exact_map[k][1][1] = "unique" => Len(exact_map[k][2]) = 1
        /\ cpc = "done" =>
              \A p \in Fingerprinted, q \in Fingerprinted :
                  (/\ FpOf(content[p]) = FpOf(content[q])
                   /\ content[p] # content[q]
                   /\ SameCluster(ret, p, q)) =>
                      /\ RepOf(p) \in ValidReps /\ RepOf(q) \in ValidReps
                      /\ Connected(SimilarPairs(threshold), RepOf(p), RepOf(q))

\* two identical files and a third one with the same fingerprint and another
\* digest, which the threshold keeps out of their cluster
C4_Witness ==
    /\ cpc = "done"
    /\ \E p \in Paths, q \in Paths, r \in Paths :
          /\ p # q /\ content[p] = content[q]
          /\ FpOf(content[r]) = FpOf(content[p]) /\ content[r] # content[p]
          /\ r \in DOMAIN sha_results
          /\ SameCluster(ret, p, q)
          /\ ~SameCluster(ret, p, r)

\* C8: timing independence: for fixed inputs, threshold and hash values the
\* returned clusters are the same groups of paths for every completion order
\* of the fingerprint, SHA and pHash tasks: they are the groups of the run in
\* which every pool completes in submission order.
C8_TimingIndependent ==
    cpc = "done" =>
        ClusterSets(ret) =
            ClusterSets(ClusterInOrder(media, image_paths, threshold))

\* a run whose fingerprint and pHash futures completed out of submission
\* order and that returns its clusters in another order than the in-order run
C8_Witness ==
    /\ cpc = "done"
    /\ Len(ret) >= 1
    /\ Len(fingerprints) = NumPaths
    /\ fingerprints[1][1] > fingerprints[2][1]
    /\ Len(phash_results) >= 2
    /\ ret # ClusterInOrder(media, image_paths, threshold)

\* C17: a file whose perceptual signature is empty or absent (an undecodable
\* image, a video without frames) is never unioned by the perceptual stage,
\* whatever the threshold, 0 included: its representative has no entry in the
\* hash results and is in no union call, and every file it shares a cluster
\* with is in its own exact group, a bit-identical copy.
C17_NoSignatureNeverUnioned ==
    cpc = "done" =>
        \A p \in Fingerprinted :
            ~Decodable(content[p]) =>
                /\ RepOf(p) \notin ValidReps
                /\ \A k \in DOMAIN unions :
                       RepOf(p) # unions[k][1] /\ RepOf(p) # unions[k][2]
                /\ \A q \in Paths :
                       SameCluster(ret, p, q) =>
                           /\ ExactGroupOf(q) = ExactGroupOf(p)
                           /\ content[q] = content[p]

\* threshold 0: two undecodable identical files form a cluster, and a third
\* file with a valid signature stays out of it
C17_Witness ==
    /\ cpc = "done"
    /\ threshold = 0
    /\ \E p \in Paths, q \in Paths, r \in ValidReps :
          /\ p # q /\ ~Decodable(content[p])
          /\ SameCluster(ret, p, q)
          /\ ~SameCluster(ret, p, r)

\* C18: a fingerprinted file whose SHA-256 computation fails is excluded from
\* all further grouping of the run: it is not perceptually hashed or compared
\* and it is in no returned cluster.
C18_ShaFailureExcluded ==
    cpc = "done" =>
        \A p \in Range(ToSha(fingerprints)) :
            p \notin DOMAIN sha_results =>
                /\ p \notin Range(Reps(exact_map))
                /\ p \notin ValidReps
                /\ p \notin Clustered(ret)

\* C5: after any sequence of union and find calls, for all seen elements a and
\* b, find(a) = find(b) holds iff a and b are connected by the unions performed
\* so far.
C5_FindIffConnected ==
    \A a \in DOMAIN parent, b \in DOMAIN parent :
        (Find(parent, a) = Find(parent, b)) <=> Connected(links, a, b)

C5_Witness ==
    \E a \in DOMAIN parent, b \in DOMAIN parent, c \in DOMAIN parent :
        /\ a # b /\ b # c /\ a # c
        /\ {a, b} \notin links
        /\ {a, c} \in links /\ {c, b} \in links
        /\ Find(parent, a) = Find(parent, b)
        /\ call.op = "find"

\* C6: find is idempotent and representative-preserving: the find(x) that
\* follows a find(x) returns the same root, and a find call (path compression,
\* or the creation of a node for an unseen x) changes the root of no element
\* that was seen before the call.
C6_FindIdempotent ==
    call.op = "find" =>
        /\ Find(parent, call.x) = call.ret
        /\ \A y \in DOMAIN call.old : RootOf(parent, y) = RootOf(call.old, y)

\* a find that compressed a path: x pointed at a non-root before the call
C6_Witness ==
    /\ call.op = "find"
    /\ call.x \in DOMAIN call.old
    /\ call.old[call.x] # call.ret
    /\ parent[call.x] = call.ret

\* C7: union is commutative in effect: union(a, b) followed by union(b, a)
\* leaves the classes as union(a, b) alone left them, and union(a, b) and
\* union(b, a) applied to the same state give the same partition.
C7_UnionCommutative ==
    \A a \in Paths, b \in Paths :
        LET ab == UnionParent(parent, a, b)
            ba == UnionParent(parent, b, a)
        IN  /\ ClassesOf(UnionParent(ab, b, a)) = ClassesOf(ab)
            /\ ClassesOf(ab) = ClassesOf(ba)

\* two classes, one of them with a non-root member, merged either way round
\* with different roots
C7_Witness ==
    /\ call.op = "union"
    /\ \E a \in DOMAIN parent, b \in DOMAIN parent :
            /\ RootOf(parent, a) # RootOf(parent, b)
            /\ RootOf(parent, a) # a
            /\ RootOf(UnionParent(parent, a, b), a) # RootOf(UnionParent(parent, b, a), a)

C10_Progress ==
    has_cb =>
        /\ Len(cb_log) = i
        /\ \A k \in DOMAIN cb_log : cb_log[k] = SubCb(StageName(kind), k, Len(inputs))
        /\ spc = "done" => Len(cb_log) = Len(inputs)

C10_Witness ==
    /\ has_cb
    /\ spc = "done"
    /\ Len(inputs) >= 2
    /\ arrived[1] > arrived[2]
    /\ \E p \in Range(inputs) : outcome[p].tag # "val"
    /\ \E p \in Range(inputs) : outcome[p].tag = "val"
    /\ cb_log[Len(cb_log)][2] = Len(inputs)
    /\ cb_log[Len(cb_log)][3] = Len(inputs)

\* ---- reading a run of the handlers (used by the properties)
\* the members of the k-th cluster
Members(k) == Range(clusters[k].files)

\* the member with the greatest (score, path)
TopScoring(k) ==
    CHOOSE f \in Members(k) :
        \A g \in Members(k) : Score(f) > Score(g) \/ (Score(f) = Score(g) /\ f >= g)

\* the handler of the k-th cluster has returned
Handled(k) == k \in DOMAIN clusters /\ ci > k

\* the requests made to the decision source about members of the k-th cluster
AskedAbout(k) == {n \in DOMAIN asked : asked[n].left \in Members(k)}

\* C11: single survivor in automatic mode: after handle_image_cluster /
\* handle_video_cluster has finished in non-interactive mode on a cluster
\* whose files all exist, exactly one member, the highest-scoring one, is
\* still at its original path and every other member is in the duplicates
\* area.
C11_SingleSurvivor ==
    ~interactive =>
        \A k \in DOMAIN clusters :
            (Handled(k) /\ \A f \in Members(k) : loc[f] # "gone") =>
                /\ {f \in Members(k) : loc[f] = "orig"} = {TopScoring(k)}
                /\ \A f \in Members(k) \ {TopScoring(k)} : loc[f] = "dup"

\* a finished automatic run over two clusters of existing files: the survivor
\* of the first is not its last path, and a member with another digest than
\* the survivor's was moved
C11_Witness ==
    /\ rpc = "done"
    /\ ~interactive
    /\ Len(clusters) = 2
    /\ \A f \in Files : loc[f] # "gone"
    /\ \E g \in Members(1) : g > TopScoring(1)
    /\ \E f \in Members(1) : loc[f] = "dup" /\ digest[f] # digest[TopScoring(1)]
    /\ loc[TopScoring(2)] = "orig"

\* the members of the k-th cluster that exist when resolution starts all have
\* the same SHA-256 digest
SameDigest(k) ==
    \E d \in 1 .. 2 : \A f \in Members(k) : loc[f] # "gone" => digest[f] = d

C13_QuitHalts ==
    /\ [](answer = "quit" => rpc = "exited")
    /\ [][answer = "quit" => UNCHANGED resolveVars]_vars

\* the reviewer quits at the second pair of the first cluster, after a move,
\* with a second cluster still to come
C13_Witness ==
    /\ answer = "quit"
    /\ rpc = "exited"
    /\ ci < Len(clusters)
    /\ \E f \in Members(ci) : loc[f] = "dup"
    /\ \A f \in Members(ci + 1) : loc[f] = "orig"

\* C20: decision-source fallback: in interactive mode handle_image_cluster of
\* clustering.py, at a pair of existing files that are not exact duplicates,
\* does not raise and asks the decision source; when the GUI reviewer cannot
\* be imported or fails with a RuntimeError the text prompt is invoked and
\* its answer is the decision applied for the pair.
C20_PromptFallback ==
    [][(/\ handlers = "clustering"
        /\ interactive
        /\ rpc = "loop"
        /\ others # <<>>
        /\ clusters[ci].type = "image"
        /\ Exists(loc, best) /\ Exists(loc, Head(others))
        /\ ~IsExactDuplicate(digest[best], digest[Head(others)]))
       => /\ rpc' # "raised"
          /\ Len(asked') > Len(asked)
          /\ asked'[Len(asked')].left = best
          /\ asked'[Len(asked')].right = Head(others)
          /\ (asked'[Len(asked')].source = "gui" =>
                  answer' \notin {"ImportError", "RuntimeError"})]_vars

\* ---- reading a review session (used by the properties)
\* the file list of the cluster with index idx (counted from 0)
FilesAt(cl, idx) == cl[idx + 1].files

\* h without its last entry
Front(h) == SubSeq(h, 1, Len(h) - 1)

\* C14: undo of keep-left: when POST /decision/left has moved the right-hand
\* file R to D and POST /review/undo undoes that entry while D still exists,
\* the undo moves D back to R's original path, puts the cluster's file list
\* back to its pre-decision contents and order (R second again), and sets
\* current_index to the index of that cluster.
C14_UndoKeepLeft ==
    [][(/\ undone' # NoAction
        /\ undone'.choice = "left"
        /\ PathExists(fs, undone'.dest_path))
       => /\ PathExists(fs', undone'.moved_path)
          /\ ~PathExists(fs', undone'.dest_path)
          /\ FilesAt(state_clusters', undone'.index) = undone'.files
          /\ undone'.files[2] = undone'.moved_path
          /\ current_index' = undone'.index]_vars

\* the undone keep-left had finished its cluster and moved the cursor on,
\* and an earlier decision is still recorded
C14_Witness ==
    /\ undone.choice = "left"
    /\ PathExists(fs, undone.moved_path)
    /\ Len(undone.files) = 2
    /\ FilesAt(state_clusters, current_index) = undone.files
    /\ current_index = 1
    /\ history # <<>>

\* C15: bounded history: the history never holds more than 10 entries, it is
\* always the most recent of the recorded decisions that were not undone, in
\* their order, and recording an entry into a full history evicts exactly the
\* oldest one.
C15_BoundedHistory ==
    /\ [](/\ Len(history) <= HistoryCap
          /\ Len(history) <= Len(log)
          /\ history = SubSeq(log, Len(log) - Len(history) + 1, Len(log)))
    /\ [][Len(log') = Len(log) + 1 =>
              history' = IF Len(history) = HistoryCap
                         THEN Append(Tail(history), log'[Len(log')])
                         ELSE Append(history, log'[Len(log')])]_vars

\* the 11th entry was recorded: the first one is gone from the history, the
\* ten others are there, decisions of the three kinds among them
C15_Witness ==
    /\ Len(log) = HistoryCap + 1
    /\ Len(history) = HistoryCap
    /\ history[1] = log[2]
    /\ {history[k].choice : k \in DOMAIN history} = {"left", "right", "skip"}

\* C16: undo with a missing destination: when the entry POST /review/undo
\* undoes records a move whose destination file no longer exists, the undo
\* moves no file, raises no error, removes the entry from the history, and
\* still puts the cluster's file list back to the recorded snapshot and
\* current_index to the recorded cluster index.
C16_UndoMissingDestination ==
    [][(/\ undone' # NoAction
        /\ undone'.choice \in {"left", "right"}
        /\ ~PathExists(fs, undone'.dest_path))
       => /\ fs' = fs
          /\ ~error'
          /\ history' = Front(history)
          /\ undone' = history[Len(history)]
          /\ FilesAt(state_clusters', undone'.index) = undone'.files
          /\ current_index' = undone'.index]_vars

\* after such an undo the file is in the review list again and exists
\* neither at its path nor in the duplicates directory
C16_Witness ==
    /\ undone.choice \in {"left", "right"}
    /\ ~PathExists(fs, undone.moved_path)
    /\ ~PathExists(fs, undone.dest_path)
    /\ undone.moved_path \in Range(FilesAt(state_clusters, current_index))
    /\ current_index = undone.index
    /\ ~error

\* C19: invalid configuration is rejected at entry: at every entry point that
\* takes a threshold (CLI main, web POST /scan, cluster_images /
\* cluster_videos) a threshold outside [0, 1] is rejected before the
\* duplicates directory is created, before any file is hashed and before any
\* session state is changed.
C19_InvalidThresholdRejected ==
    (arg.given /\ ~InRange(arg.value)) =>
        /\ ~made_dir
        /\ ~hashed
        /\ session = SessionFresh
        /\ epc = "exit" => result = "rejected"

\* C22: a skip decision moves no file: after POST /decision/skip on a pair,
\* every file is where it was, the second file of the pair has been removed
\* from the current cluster's review list (the list is one shorter, the rest
\* in order), and the cursor has moved to the next cluster exactly when fewer
\* than two files remain.
C22_SkipMovesNothing ==
    [][(/\ Len(log') = Len(log) + 1
        /\ log'[Len(log')].choice = "skip")
       => LET files == FilesAt(state_clusters, current_index)
              rest == FilesAt(state_clusters', current_index)
          IN  /\ fs' = fs
              /\ Len(rest) = Len(files) - 1
              /\ rest[1] = files[1]
              /\ \A k \in 2 .. Len(rest) : rest[k] = files[k + 1]
              /\ current_index' = IF Len(rest) < 2 THEN current_index + 1
                                  ELSE current_index
              /\ ~error']_vars

\* a skip of the last pair of the first cluster: both files are at their
\* paths, one file is left in the list, the cursor is at the second cluster
C22_Witness ==
    /\ history # <<>>
    /\ LET e == history[Len(history)]
       IN  /\ e.choice = "skip"
           /\ Len(e.files) = 2
           /\ Range(e.files) \subseteq fs
           /\ e.index = 0
           /\ FilesAt(state_clusters, 0) = <<e.files[1]>>
    /\ current_index = 1
    /\ Len(state_clusters) = 2
    /\ undone = NoAction

\* C29: the perceptual comparison stage visits the pairs of valid
\* representatives in a fixed order that does not depend on the completion
\* order of the parallel hashing tasks: the same inputs always give the same
\* sequence of union calls, the one of the run in which every pool completes
\* in submission order.
C29_FixedComparisonOrder ==
    cpc = "done" => unions = UnionsInOrder(media, image_paths, threshold)

\* the loop of a handler is at a pair of existing files that are not
\* bit-identical
AtOpenPair ==
    /\ rpc = "loop"
    /\ others # <<>>
    /\ Exists(loc, best) /\ Exists(loc, Head(others))
    /\ ~IsExactDuplicate(digest[best], digest[Head(others)])

\* the perceptual similarity of the pair is below the active threshold
BelowThreshold ==
    ~MeetsThreshold(PairSim(clusters[ci].type, best, Head(others)),
                    ActiveThreshold(interactive))

\* the turn of the loop leaves everything but the loop position as it is
PairSkipped ==
    /\ loc' = loc
    /\ asked' = asked
    /\ best' = best
    /\ rpc' = "loop"
    /\ others' = Tail(others)

\* C23: in interactive mode, for an existing pair that is not bit-identical
\* and whose perceptual similarity is below the active threshold, the handler
\* skips the pair: it moves no file, requests no decision, raises no error and
\* goes on with the next member of the cluster.
C23_BelowThresholdSkipped ==
    [][(interactive /\ AtOpenPair /\ BelowThreshold) => PairSkipped]_vars

\* C24: in automatic mode a pair that is not bit-identical and whose
\* perceptual similarity is below the active threshold is left untouched: the
\* other member is moved only when the similarity is at or above the
\* threshold.
C24_AutomaticBelowThresholdUntouched ==
    [][(~interactive /\ AtOpenPair /\ BelowThreshold) => loc' = loc]_vars

\* C25: current-best hand-over: on keep-left only the other member is moved
\* and the current best stays; on keep-right the current best is moved and
\* the other member becomes the current best; every request to the decision
\* source has the current best on the left, and the current best is never a
\* file that was moved away.
C25_BestHandOver ==
    /\ [](rpc = "loop" => loc[best] # "dup")
    /\ [][Len(asked') > Len(asked) =>
              LET r == asked'[Len(asked')]
              IN  /\ r.left = best
                  /\ r.right = Head(others)
                  /\ answer' = "left" =>
                         /\ loc' = [loc EXCEPT ![r.right] = "dup"]
                         /\ best' = best
                  /\ answer' = "right" =>
                         /\ loc' = [loc EXCEPT ![r.left] = "dup"]
                         /\ best' = r.right
                  /\ answer' \notin {"left", "right"} => loc' = loc /\ best' = best]_vars

\* after a keep-right the next member of the cluster was put to the reviewer
\* against the promoted file, and the file moved away stays away
C25_Witness ==
    /\ Len(asked) >= 2
    /\ LET r1 == asked[Len(asked) - 1]
           r2 == asked[Len(asked)]
       IN  /\ r2.left = r1.right
           /\ loc[r1.left] = "dup"
           /\ answer = "left"
           /\ loc[r2.right] = "dup"
           /\ best = r2.left
           /\ loc[best] = "orig"
    /\ rpc = "loop"

\* C28: vanished files: when the current best or the member under
\* consideration no longer exists when the pair is processed, the handler
\* skips the pair entirely: no hash is computed, no file is moved, no decision
\* is requested, no error is raised.
C28_VanishedPairSkipped ==
    [][(/\ rpc = "loop"
        /\ others # <<>>
        /\ (loc[best] # "orig" \/ loc[Head(others)] # "orig"))
       => PairSkipped /\ sha_read' = sha_read]_vars

\* a cluster of an interactive run was handled although its top-scoring
\* member had vanished: nothing of it was hashed, moved or asked about, and
\* the run went on
C28_Witness ==
    /\ interactive
    /\ Handled(1)
    /\ Cardinality(Members(1)) >= 3
    /\ loc[TopScoring(1)] = "gone"
    /\ \A f \in Members(1) \ {TopScoring(1)} : loc[f] = "orig"
    /\ sha_read \cap Members(1) = {}
    /\ AskedAbout(1) = {}
    /\ rpc = "done"

\* ---- web access control
\* the paths the statement exempts: /login, /logout and /static/*
OpenPath(path) == path \in {LoginPath, LogoutPath} \/ UnderStaticMount(path)

Matching(username, password) ==
    username \in DOMAIN ALLOWED_USERS /\ ALLOWED_USERS[username] = password

\* a request without a user to a path that is not exempt is answered with the
\* redirect to /login and by no handler
UnauthenticatedRedirected ==
    (response.status # 0 /\ response.user = NoUser /\ ~OpenPath(response.path))
        => /\ response.status = 303
           /\ response.location = LoginPath
           /\ response.handler = "none"

\* the scan state is written by a request only if its session has a user
StateWrittenByUser ==
    (app_status' = "scanning" /\ app_status # "scanning")
        => (response'.handler = "start_scan" /\ response'.user # NoUser)

\* a session gets a user only from a POST /login with matching credentials,
\* and keeps it until its client's /logout
SessionFromLogin ==
    \A c \in Clients :
        /\ (session_user'[c] # NoUser /\ session_user'[c] # session_user[c])
              => /\ response'.client = c
                 /\ response'.method = "POST" /\ response'.path = LoginPath
                 /\ Matching(response'.username, response'.password)
                 /\ session_user'[c] = response'.username
        /\ (session_user[c] # NoUser /\ session_user'[c] = NoUser)
              => /\ response'.client = c
                 /\ response'.path = LogoutPath

\* a POST /login whose credentials do not match changes no session
FailedLoginKeepsSession ==
    (response'.handler = "login"
       /\ ~Matching(response'.username, response'.password))
        => session_user' = session_user

AccessControlSteps == [][StateWrittenByUser /\ SessionFromLogin /\ FailedLoginKeepsSession]_vars

\* C21: a request to a path other than /login, /logout and /static/* whose
\* session has no user is answered with a 303 redirect to /login and runs no
\* handler, the scan state staying as it is; a session has a user only from
\* a POST /login with the credentials of a configured user until the next
\* /logout, and a failed login leaves the session without a user
C21_AccessControl == [](UnauthenticatedRedirected) /\ AccessControlSteps

\* ---- equal digests in the web review
\* the first two files of the current list exist and hold the same bytes
\* (hash_file_sha256 of them is equal)
EqualDigestPair ==
    /\ current_index < Len(state_clusters)
    /\ Len(FilesAt(state_clusters, current_index)) >= 2
    /\ LET files == FilesAt(state_clusters, current_index)
       IN  /\ PathExists(fs, files[1]) /\ PathExists(fs, files[2])
           /\ BytesOf(files[1]) = BytesOf(files[2])

\* C27: in the web review a pair of files with equal content digest is
\* resolved by GET /review itself: the non-best file is moved to the
\* duplicates area and the pair is not presented for a decision
C27_WebExactAutoResolved ==
    EqualDigestPair =>
        LET files == FilesAt(state_clusters, current_index)
            r == Review(state_clusters, current_index, history, fs, state_threshold)
        IN  /\ ~ReviewPresents(state_clusters, current_index, fs, state_threshold)
            /\ ~PathExists(r.fs, files[2])
            /\ PathExists(r.fs, DestOf(files[2]))

\* ---- the order of the move and the history entry
\* handle_decision taken statement by statement ends in the state the
\* request as a whole gives
StepsAgree ==
    (dpc = "idle" /\ d_start # NoStart) =>
        LET r == HandleDecision(d_start.clusters, d_start.index, d_start.history,
                                d_start.fs, d_start.choice)
        IN  /\ state_clusters = r.clusters
            /\ current_index = r.index
            /\ history = r.history
            /\ fs = r.fs
            /\ ~r.error

\* C26: every move is recorded before it is applied: at no point is a file
\* in the duplicates area without a history entry that describes its move
C26_RecordedBeforeMoved ==
    \A f \in 1 .. NumFiles :
        PathExists(fs, DestOf(f)) =>
            \E k \in DOMAIN history :
                history[k].moved_path = f /\ history[k].dest_path = DestOf(f)

\* ---- the barriers between the pools
\* the futures of a stage that a worker has taken
Started(s) == {f \in DOMAIN task[s] : task[s][f] # "queued"}

\* the stage's pool was filled and every task of it has ended
AllEnded(s) == \A f \in DOMAIN task[s] : task[s][f] = "done"

\* the run task by task returns the groups the run stage by stage returns
StagesAgree ==
    tpc = "done" =>
        ClusterSets(ret) = ClusterSets(ClusterInOrder(media, image_paths, threshold))

\* C30: no SHA task starts before every fingerprint task has ended, no
\* perceptual-hash task starts before every SHA task has ended, the
\* union-find is written only after every perceptual-hash task has ended,
\* and only by the thread that called the clustering function
C30_StageBarrier ==
    /\ Started("sha") # {} => AllEnded("fingerprint")
    /\ Started("phash") # {} => (AllEnded("fingerprint") /\ AllEnded("sha"))
    /\ (writers # {} \/ unions # <<>> \/ parent # EmptyDict)
          => (AllEnded("fingerprint") /\ AllEnded("sha") /\ AllEnded("phash"))
    /\ writers \subseteq {"caller"}

\* a finished run in which all three pools had tasks and unions were made
C30_Witness ==
    /\ tpc = "done"
    /\ Cardinality(DOMAIN task["fingerprint"]) >= 2
    /\ Cardinality(DOMAIN task["sha"]) >= 2
    /\ Cardinality(DOMAIN task["phash"]) >= 2
    /\ unions # <<>>
    /\ writers = {"caller"}

\* ---- which files are hashed
\* the paths whose transform of stage s a worker has begun
Ran(s) == {submitted[s][f] : f \in Started(s)}

\* get_file_fingerprint gave a fingerprint for p
HasFingerprint(p) == io[p] # "nofp"

\* p's fingerprint is the fingerprint of another input file as well
SharesFingerprint(p) ==
    /\ HasFingerprint(p)
    /\ \E q \in Paths \ {p} :
           HasFingerprint(q) /\ FpOf(content[q]) = FpOf(content[p])

\* the exact groups are built
ExactGroupsBuilt == tpc \in {"phash", "compare", "done"}

\* C31: the content digest is computed only for files whose fingerprint is
\* shared with another input file; a file with a fingerprint of its own is
\* never content-hashed and is keyed by a key made of its path; exactly one
\* file of every exact group is perceptually hashed
C31_HashedOnlyWhenNeeded ==
    /\ \A p \in Ran("sha") : SharesFingerprint(p)
    /\ ExactGroupsBuilt =>
          \A p \in Paths :
              (HasFingerprint(p) /\ ~SharesFingerprint(p)) =>
                  /\ p \notin Ran("sha")
                  /\ DictHas(exact_map, <<"unique", p>>)
                  /\ DictGet(exact_map, <<"unique", p>>) = <<p>>
    /\ \A k \in DOMAIN exact_map :
          Cardinality(Range(exact_map[k][2]) \cap Ran("phash")) <= 1
    /\ tpc \in {"compare", "done"} =>
          /\ \A k \in DOMAIN exact_map :
                 Cardinality(Range(exact_map[k][2]) \cap Ran("phash")) = 1
          /\ Ran("phash") \subseteq UNION {Range(exact_map[k][2]) : k \in DOMAIN exact_map}

\* a finished run with a file of a fingerprint of its own, two files that
\* were content-hashed and fall into one exact group
C31_Witness ==
    /\ tpc = "done"
    /\ \E p \in Paths : HasFingerprint(p) /\ ~SharesFingerprint(p)
    /\ Cardinality(Ran("sha")) >= 2
    /\ \E k \in DOMAIN exact_map : Len(exact_map[k][2]) >= 2

\* ---- the similarity of two video signatures
\* a is the first Len(a) elements of b
IsPrefix(a, b) == Len(a) <= Len(b) /\ SubSeq(b, 1, Len(a)) = a

\* the sum of the Hamming distances of the first m aligned pairs
RECURSIVE AlignedDistance(_, _, _)
AlignedDistance(a, b, m) ==
    IF m = 0 THEN 0
    ELSE AlignedDistance(a, b, m - 1) + Hamming(a[m], b[m])

\* what the call returned is 0 for an empty argument, else
\* max(0, 1 - sum / (64 m)), lies in [0, 1] and is the same for the
\* arguments exchanged
CompareValue ==
    LET a == call_args.hashes1
        b == call_args.hashes2
        m == IF Len(a) <= Len(b) THEN Len(a) ELSE Len(b)
        v == call_out.value
    IN  /\ (a = <<>> \/ b = <<>>) => v.num = 0
        /\ (a # <<>> /\ b # <<>>) =>
              LET d == AlignedDistance(a, b, m)
              IN  v.num * (HashBits * m)
                    = v.den * (IF HashBits * m - d > 0 THEN HashBits * m - d ELSE 0)
        /\ 0 <= v.num /\ v.num <= v.den /\ v.den > 0
        /\ LET w == compare_video_hashes(b, a)
           IN  v.num * w.den = w.num * v.den

\* C32: compare_video_hashes returns 0 when either sequence is empty and
\* otherwise max(0, 1 - (sum of the Hamming distances of the first m aligned
\* pairs) / (64 m)), m the shorter length; the result lies in [0, 1], is
\* symmetric, and is 1 when one sequence is a non-empty prefix of the other
C32_CompareVideoHashes ==
    (called = "compare_video_hashes" /\ call_out.done) =>
        /\ CompareValue
        /\ LET a == call_args.hashes1
               b == call_args.hashes2
           IN  (a # <<>> /\ b # <<>> /\ (IsPrefix(a, b) \/ IsPrefix(b, a)))
                   => call_out.value.num = call_out.value.den

\* a call on a sequence and a longer one that begins with it
C32_Witness ==
    /\ called = "compare_video_hashes" /\ call_out.done
    /\ call_args.hashes1 # <<>>
    /\ Len(call_args.hashes1) < Len(call_args.hashes2)
    /\ IsPrefix(call_args.hashes1, call_args.hashes2)
    /\ call_out.value.num = call_out.value.den

\* C32 as it is stated: the result is 1 whenever one sequence is a prefix
\* of the other, the empty sequence included
C32_PrefixAlwaysOne ==
    (called = "compare_video_hashes" /\ call_out.done) =>
        /\ CompareValue
        /\ LET a == call_args.hashes1
               b == call_args.hashes2
           IN  (IsPrefix(a, b) \/ IsPrefix(b, a))
                   => call_out.value.num = call_out.value.den

\* ---- the frames hash_video_frames samples
\* C33: for frame_count >= 1 and sample_count >= 1 hash_video_frames takes the
\* indices floor(i (frame_count - 1) / (sample_count - 1)), i = 0 ..
\* sample_count - 1 (index 0 alone when sample_count = 1); they are
\* non-decreasing, lie in [0, frame_count - 1], begin with 0 and, when
\* sample_count > 1, end with frame_count - 1; the signature has at most
\* sample_count hashes, in index order; frame_count <= 0 or a stream that
\* does not open gives the empty signature
C33_FrameSampling ==
    (called = "hash_video_frames" /\ call_out.done) =>
        LET fc == call_args.frame_count
            sc == call_args.sample_count
            idx == call_out.indices
            sig == call_out.value
        IN  /\ (~call_args.opened \/ fc <= 0) => sig = <<>>
            /\ (call_args.opened /\ fc >= 1) =>
                  /\ Len(idx) = sc
                  /\ \A k \in 1 .. sc :
                         /\ sc = 1 => idx[k] = 0
                         /\ sc > 1 => /\ idx[k] * (sc - 1) <= (k - 1) * (fc - 1)
                                       /\ (k - 1) * (fc - 1) < (idx[k] + 1) * (sc - 1)
                         /\ 0 <= idx[k] /\ idx[k] <= fc - 1
                  /\ \A k \in 1 .. (sc - 1) : idx[k] <= idx[k + 1]
                  /\ idx[1] = 0
                  /\ sc > 1 => idx[sc] = fc - 1
                  /\ Len(sig) <= sc
                  /\ Len(sig) = Cardinality({k \in 1 .. sc : idx[k] \notin call_args.unreadable})
                  /\ \A k \in 1 .. (Len(sig) - 1) : sig[k] <= sig[k + 1]
                  /\ \A k \in 1 .. Len(sig) :
                         \E j \in 1 .. sc :
                             /\ idx[j] \notin call_args.unreadable
                             /\ sig[k] = FrameHash(idx[j])

\* a call that samples more than one frame of a longer stream and passes
\* over a frame that cannot be read
C33_Witness ==
    /\ called = "hash_video_frames" /\ call_out.done
    /\ call_args.opened
    /\ call_args.sample_count >= 3
    /\ call_args.frame_count > call_args.sample_count
    /\ Len(call_out.value) >= 2
    /\ Len(call_out.value) < call_args.sample_count

\* ---- a member of every cluster stays
\* the command-line handlers: inside a handler the current best is a member
\* of the cluster that was not moved, and no cluster has all members moved
CliSurvivor ==
    /\ rpc = "loop" => (best \in Members(ci) /\ loc[best] # "dup")
    /\ \A k \in DOMAIN clusters : \E f \in Members(k) : loc[f] # "dup"

\* the web review: the first file of every review list is not in the
\* duplicates directory and no recorded decision that stands has moved it
WebSurvivor ==
    \A k \in DOMAIN state_clusters :
        LET files == state_clusters[k].files
        IN  /\ files # <<>>
            /\ ~PathExists(fs, DestOf(files[1]))
            /\ \A n \in DOMAIN log : log[n].moved_path # files[1]

\* C34: in every mode and after every sequence of decisions and automatic
\* moves a member of the cluster is left unmoved: the current best of the
\* command-line handlers, the first file of the review list of the web flow
C34_SurvivorInvariant == CliSurvivor /\ WebSurvivor

\* the reviewer has kept the right file twice in one cluster: two former
\* best files are moved, the current best is not
C34_Witness ==
    /\ rpc = "loop"
    /\ interactive
    /\ answer = "right"
    /\ Cardinality({f \in Members(ci) : loc[f] = "dup"}) >= 2
    /\ loc[best] = "orig"

\* ---- the list a decision reads
\* C35: whenever POST /decision/{choice} can be processed with current_index
\* < len(clusters), the current cluster's list has at least two files, also
\* right after GET /review dropped a file and right after an undo
C35_DecisionPrecondition ==
    current_index < Len(state_clusters) =>
        Len(FilesAt(state_clusters, current_index)) >= 2

\* ---- overlapping scans
LatestScan == scan_threads[Len(scan_threads)]
ScansEnded == \A k \in DOMAIN scan_threads : ThreadAt(k, "ended")

\* the session is the one the scan left behind, decisions on it included
SessionOf(scan) ==
    /\ state_directory = scan.directory
    /\ state_threshold = scan.threshold
    /\ state_duplicates_dir = DuplicatesDirOf(scan.directory)
    /\ app_status = scan.status
    /\ Len(state_clusters) = Len(scan.all_clusters)
    /\ \A c \in Range(state_clusters) : Range(c.files) \subseteq FilesIn(scan.directory)
    /\ current_index <= Len(state_clusters)
    /\ \A e \in Range(history) :
           /\ e.index < Len(scan.all_clusters)
           /\ Range(e.files) \subseteq FilesIn(scan.directory)

\* C36: after every thread of run_scan has finished, clusters, duplicates_dir,
\* directory, threshold, status and current_index are those of the scan that
\* was requested last, and every history entry refers to that scan's clusters
C36_OverlappingScans ==
    (scan_threads # <<>> /\ ScansEnded) => SessionOf(LatestScan)

\* ---- undo round trip
\* lists, cursor and files are those before the run
PlacesRestored ==
    /\ state_clusters = trip_start.clusters
    /\ current_index = trip_start.index
    /\ fs = trip_start.fs
HistoryRestored == history = trip_start.history

\* no entry was evicted during the run
NothingEvicted == Len(trip_start.history) + trip_start.n <= HistoryCap

\* POST /review/undo on an empty history leaves the session and the files
UndoOfNothing ==
    history = <<>> =>
        UndoDecision(state_clusters, current_index, history, fs)
            = Outcome(state_clusters, current_index, history, fs, <<>>, FALSE)

\* C37: n recorded decisions followed by n undos put back every list, the
\* cursor and every file, and the history when the run evicted no entry of it
\* (at most 10 entries with those of the run); an undo on an empty history
\* changes nothing
C37_UndoRoundTrip ==
    /\ trip_pc = "back" => PlacesRestored /\ (NothingEvicted => HistoryRestored)
    /\ UndoOfNothing

C37_Witness ==
    /\ trip_pc = "back"
    /\ trip_start.n = MaxTrip
    /\ Len(trip_start.history) + trip_start.n = HistoryCap
    /\ \E e \in Range(trip_start.history) : TRUE
    /\ PlacesRestored /\ HistoryRestored

\* C37 as stated: the history is as it was after every such run
C37_HistoryAlwaysRestored ==
    /\ trip_pc = "back" => PlacesRestored /\ HistoryRestored
    /\ UndoOfNothing

\* ---- the end of a review
\* the files still under review: the entries of all lists
RECURSIVE Listed(_)
Listed(cl) == IF cl = <<>> THEN 0 ELSE Len(cl[1].files) + Listed(Tail(cl))

\* the steps taken so far that removed a file from a list, and the sum over
\* the clusters of |c_i| - 1; the lists of a session hold NumFiles files at
\* the start
StepsTaken == NumFiles - Listed(state_clusters)
MostSteps == NumFiles - Len(state_clusters)
DonePage == current_index >= Len(state_clusters)

\* a step records a decision or drops a file exactly when it takes one file
\* off the lists; no step does anything else to the lists or moves the cursor
\* back
ForwardSteps ==
    [][/\ current_index' >= current_index
       /\ Len(state_clusters') = Len(state_clusters)
       /\ Listed(state_clusters') \in {Listed(state_clusters), Listed(state_clusters) - 1}
       /\ log' # log => Listed(state_clusters') = Listed(state_clusters) - 1
       /\ state_clusters' # state_clusters =>
              Listed(state_clusters') = Listed(state_clusters) - 1]_vars

C39_WellFormedOutput ==
    cpc = "done" =>
        /\ \A k \in DOMAIN ret :
               /\ Len(ret[k]) >= 2
               /\ Cardinality(Range(ret[k])) = Len(ret[k])
               /\ \A p \in Range(ret[k]) : p \in Inputs /\ io[p] # "nofp"
        /\ \A k \in DOMAIN ret, l \in DOMAIN ret :
               k # l => Range(ret[k]) \cap Range(ret[l]) = {}

C39_Witness ==
    /\ cpc = "done"
    /\ Len(ret) = 2
    /\ \E p \in Inputs : io[p] = "nofp"
    /\ \E k \in DOMAIN ret : \E p \in Range(ret[k]), q \in Range(ret[k]) :
           content[p] # content[q]

\* ---- the pipeline that hashes every file
AllSucceed == \A p \in Inputs : io[p] = "ok" /\ Decodable(content[p])

\* C40: when every hash computation succeeds, cluster_images of clustering.py
\* returns the same clusters, as sets of paths, as cluster_images of main.py
C40_SameAsReference ==
    (cpc = "done" /\ media = "image" /\ AllSucceed) =>
        ClusterSets(ret) = ClusterSets(main_cluster_images(input_paths, threshold))

C40_Witness ==
    /\ cpc = "done" /\ media = "image" /\ AllSucceed
    /\ threshold = 100
    /\ \E p \in Inputs, q \in Inputs :
           content[p] # content[q] /\ FpOf(content[p]) = FpOf(content[q])
    /\ \E p \in Inputs : \A q \in Inputs \ {p} : FpOf(content[q]) # FpOf(content[p])
    /\ ret # <<>>
    /\ ClusterSets(ret) = ClusterSets(main_cluster_images(input_paths, threshold))
====
